---- MODULE Spec2Model ----
(***************************************************************************)
(* Marty Labs creative engine: the file-backed memory store (projects,     *)
(* pipeline items, feedback ledger, pattern summary, contradiction         *)
(* detection) and the HTTP handlers that drive it (review endpoints and    *)
(* the generation endpoints for scripts and storyboards).                  *)
(*                                                                         *)
(* Representation.  A JSON document is a TLA+ value; a document that does  *)
(* not exist reads as the default its reader substitutes (getItems and     *)
(* getFeedback: [], getPatterns: the empty summary), so documents start    *)
(* at those defaults.  uuid() is a counter of fresh values, Date.now() a   *)
(* clock that never runs backwards.  A JS string is a TLA+ string; the     *)
(* character-level operations on comments (trim, toLowerCase, includes)    *)
(* work on its character sequence, Chars(s).  Fields that no handler or    *)
(* store function ever reads (createdAt, updatedAt, the ids and            *)
(* timestamps of item comments, the generated text of an item) are left    *)
(* out of the item records.                                                *)
(***************************************************************************)
EXTENDS Naturals, Sequences, FiniteSets, TLC

(***************************************************************************)
(* Bounds of the model.                                                    *)
(***************************************************************************)
MaxAppends == 3     \* entries of a ledger appended by direct addFeedback calls
MaxLedger == 2      \* entries of a ledger appended by the review endpoints
MaxItems == 2       \* concepts per project
MaxDownstream == 2  \* scripts per project
MaxBoards == 1      \* storyboards per project
MaxUuid == 6        \* ids a batch run may still draw from uuid()
MaxComments == 1    \* comments on an item that a request iterates
MaxNow == 2         \* last value of the clock
MaxProcs == 2       \* requests awaiting a provider at the same time
MaxFrames == 1      \* frame prompts a storyboard provider call returns
MaxBatchBoards == 2 \* storyboards per project that batch runs may save
MaxIntake == 3      \* ids drawn before the last strategy or concept request
MaxFramePrompts == 2 \* frame prompts in the reply that a storyboard is drawn from
MaxConflicts == 5   \* entries of a ledger of conflicting decisions
MaxDrawn == 4       \* ids drawn before the last contradictions lookup

(***************************************************************************)
(* JS values.                                                              *)
(***************************************************************************)
Undefined == "<undefined>"   \* the JS value undefined (an absent field)
Null == "<null>"             \* the JS value null

\* uuid(): the n-th value drawn, a string unlike any other drawn.
Uuid(n) == "id" \o ToString(n)

DescriptionChars == 60       \* characters of a comment quoted in a description

\* The character sequence of each string a request may carry as a comment.
Chars(s) ==
  CASE s = "" -> <<>>
    [] s = "  " -> <<" ", " ">>
    [] s = "Too long" -> <<"T", "o", "o", " ", "l", "o", "n", "g">>
    [] s = "expand it" -> <<"e", "x", "p", "a", "n", "d", " ", "i", "t">>
    [] s = "trim and expand" -> <<"t", "r", "i", "m", " ", "a", "n", "d", " ", "e", "x", "p", "a", "n", "d">>
    [] s = "darker" -> <<"d", "a", "r", "k", "e", "r">>
    [] s = "too dark" -> <<"t", "o", "o", " ", "d", "a", "r", "k">>
    [] s = "nice" -> <<"n", "i", "c", "e">>
    [] s = "too weird" -> <<"t", "o", "o", " ", "w", "e", "i", "r", "d">>
    [] s = "weirder" -> <<"w", "e", "i", "r", "d", "e", "r">>

\* JS truthiness of a string-or-undefined value: undefined and "" are falsy.
Truthy(s) == s # Undefined /\ s # Null /\ Len(Chars(s)) > 0

IsWhitespace(ch) == ch \in {" ", "\t", "\n", "\r"}

\* String.prototype.trim on a character sequence.
RECURSIVE TrimStart(_)
TrimStart(cs) ==
  IF cs # <<>> /\ IsWhitespace(Head(cs)) THEN TrimStart(Tail(cs)) ELSE cs

RECURSIVE TrimEnd(_)
TrimEnd(cs) ==
  IF cs # <<>> /\ IsWhitespace(cs[Len(cs)])
  THEN TrimEnd(SubSeq(cs, 1, Len(cs) - 1))
  ELSE cs

Trim(cs) == TrimEnd(TrimStart(cs))

\* String.prototype.toLowerCase, one character.
LowerChar(ch) ==
  CASE ch = "A" -> "a" [] ch = "B" -> "b" [] ch = "C" -> "c" [] ch = "D" -> "d"
    [] ch = "E" -> "e" [] ch = "F" -> "f" [] ch = "G" -> "g" [] ch = "H" -> "h"
    [] ch = "I" -> "i" [] ch = "J" -> "j" [] ch = "K" -> "k" [] ch = "L" -> "l"
    [] ch = "M" -> "m" [] ch = "N" -> "n" [] ch = "O" -> "o" [] ch = "P" -> "p"
    [] ch = "Q" -> "q" [] ch = "R" -> "r" [] ch = "S" -> "s" [] ch = "T" -> "t"
    [] ch = "U" -> "u" [] ch = "V" -> "v" [] ch = "W" -> "w" [] ch = "X" -> "x"
    [] ch = "Y" -> "y" [] ch = "Z" -> "z" [] OTHER -> ch

ToLowerCase(cs) == [i \in 1..Len(cs) |-> LowerChar(cs[i])]

\* String.prototype.includes: kw occurs in cs as a contiguous substring.
Includes(cs, kw) ==
  \E k \in 0..Len(cs) :
    k + Len(kw) <= Len(cs) /\ SubSeq(cs, k + 1, k + Len(kw)) = kw

(***************************************************************************)
(* Sequence helpers standing for Array.prototype.filter / map / find.      *)
(***************************************************************************)
Filter(s, Test(_)) == SelectSeq(s, Test)

Map(s, F(_)) == [i \in 1..Len(s) |-> F(s[i])]

Range(s) == {s[i] : i \in 1..Len(s)}

\* Array.prototype.findIndex, 1-based; 0 when no element passes.
FindIndex(s, Test(_)) ==
  IF \E i \in 1..Len(s) : Test(s[i])
  THEN CHOOSE i \in 1..Len(s) : Test(s[i]) /\ \A j \in 1..(i - 1) : ~Test(s[j])
  ELSE 0

(***************************************************************************)
(* Pattern learning (store.js, updatePatterns).                            *)
(***************************************************************************)
ApprovedPattern(f) ==
  [title |-> f.itemTitle, stage |-> f.stage, comment |-> f.comment,
   timestamp |-> f.timestamp]

RulePattern(f) ==
  [from |-> f.itemTitle, rule |-> f.comment, timestamp |-> f.timestamp]

IsApproved(f) == f.action = "approved"
IsRejected(f) == f.action = "rejected"
IsRevision(f) == f.action = "revision"
\* A rule test that takes a comment of blanks for a rule.
HasRuleCommentUntrimmed(f) == Truthy(f.comment)

HasRuleComment(f) == Truthy(f.comment) /\ Len(Trim(Chars(f.comment))) > 0

\* A summary that keeps the approved list it was given: the write of a
\* partial recomputation.
UpdatePatternsKeepApproved(old, fb) ==
  [approved |-> old.approved,
   rejected |-> Map(Filter(fb, IsRejected), ApprovedPattern),
   rules |-> Map(Filter(Filter(fb, IsRevision), HasRuleComment), RulePattern)]

\* updatePatterns(projectId, feedback): the summary written for ledger fb,
\* starting from the stored summary old.
UpdatePatterns(old, fb) ==
  [old EXCEPT
     !.approved = Map(Filter(fb, IsApproved), ApprovedPattern),
     !.rejected = Map(Filter(fb, IsRejected), ApprovedPattern),
     !.rules = Map(Filter(Filter(fb, IsRevision), HasRuleComment), RulePattern)]

EmptyPatterns == [approved |-> <<>>, rejected |-> <<>>, rules |-> <<>>]

(***************************************************************************)
(* Contradiction detection (store.js, findContradictions).  A              *)
(* contradiction is [type, entry1, entry2, description]; its id is a       *)
(* fresh uuid that nothing reads and is left out.                          *)
(***************************************************************************)
themeKeywords ==
  << [theme |-> "shorter",
      keywords |-> << <<"t", "o", "o", " ", "l", "o", "n", "g">>,
                    <<"s", "h", "o", "r", "t", "e", "r">>,
                    <<"t", "r", "i", "m">>,
                    <<"c", "u", "t", " ", "d", "o", "w", "n">> >>],
     [theme |-> "longer",
      keywords |-> << <<"t", "o", "o", " ", "s", "h", "o", "r", "t">>,
                    <<"l", "o", "n", "g", "e", "r">>,
                    <<"e", "x", "p", "a", "n", "d">>,
                    <<"m", "o", "r", "e", " ", "d", "e", "t", "a", "i", "l">> >>],
     [theme |-> "lighter",
      keywords |-> << <<"t", "o", "o", " ", "d", "a", "r", "k">>,
                    <<"l", "i", "g", "h", "t", "e", "r">>,
                    <<"s", "o", "f", "t", "e", "r">>,
                    <<"l", "e", "s", "s", " ", "e", "d", "g", "y">> >>],
     [theme |-> "darker",
      keywords |-> << <<"d", "a", "r", "k", "e", "r">>,
                    <<"e", "d", "g", "i", "e", "r">>,
                    <<"p", "u", "s", "h", " ", "i", "t">>,
                    <<"m", "o", "r", "e", " ", "a", "g", "g", "r", "e", "s", "s", "i", "v", "e">> >>],
     [theme |-> "grounded",
      keywords |-> << <<"t", "o", "o", " ", "a", "b", "s", "u", "r", "d">>,
                    <<"t", "o", "o", " ", "w", "e", "i", "r", "d">>,
                    <<"m", "o", "r", "e", " ", "r", "e", "a", "l", "i", "s", "t", "i", "c">>,
                    <<"g", "r", "o", "u", "n", "d", "e", "d">> >>],
     [theme |-> "absurd",
      keywords |-> << <<"m", "o", "r", "e", " ", "a", "b", "s", "u", "r", "d">>,
                    <<"w", "e", "i", "r", "d", "e", "r">>,
                    <<"p", "u", "s", "h", " ", "f", "u", "r", "t", "h", "e", "r">>,
                    <<"t", "o", "o", " ", "s", "a", "f", "e">> >>] >>

pairs == << <<"shorter", "longer">>, <<"lighter", "darker">>, <<"grounded", "absurd">> >>

KeywordsOf(theme) ==
  LET i == CHOOSE k \in 1..Len(themeKeywords) : themeKeywords[k].theme = theme
  IN  themeKeywords[i].keywords

\* keywords.some(kw => lower.includes(kw)) for the comment c, lower-cased.
CommentMatches(c, theme) ==
  LET lower == ToLowerCase(Chars(c))
  IN  \E k \in 1..Len(KeywordsOf(theme)) : Includes(lower, KeywordsOf(theme)[k])

\* The themes of each comment a request may carry, computed once.
CommentStrings ==
  {"", "  ", "Too long", "expand it", "trim and expand", "darker", "too dark",
   "nice", "too weird", "weirder"}
ThemeNames == {themeKeywords[k].theme : k \in 1..Len(themeKeywords)}
ThemesOfComment ==
  [c \in CommentStrings |-> {theme \in ThemeNames : CommentMatches(c, theme)}]

\* The test of the inner forEach for entry e and one theme.
MatchesTheme(e, theme) == theme \in ThemesOfComment[e.comment]

\* byItem: the item ids of the ledger in order of first occurrence (the
\* key order of Object.values for uuid keys).
RECURSIVE ItemOrder(_)
ItemOrder(fb) ==
  IF fb = <<>> THEN <<>>
  ELSE LET rest == ItemOrder(SubSeq(fb, 1, Len(fb) - 1))
           id == fb[Len(fb)].itemId
       IN  IF id \in Range(rest) THEN rest ELSE Append(rest, id)

ByItem(fb, itemId) == LET Same(e) == e.itemId = itemId IN Filter(fb, Same)

IsFlip(a, b) ==
  \/ a.action = "approved" /\ b.action = "rejected"
  \/ a.action = "rejected" /\ b.action = "approved"

DirectContradiction(a, b) ==
  [type |-> "direct", entry1 |-> a, entry2 |-> b,
   description |-> <<"You ", a.action, a.itemTitle, " then ", b.action>>]

\* The two nested loops over the entries of one item, from (i, j) on.
RECURSIVE DirectFrom(_, _, _)
DirectFrom(entries, i, j) ==
  IF i > Len(entries) THEN <<>>
  ELSE IF j > Len(entries) THEN DirectFrom(entries, i + 1, i + 2)
  ELSE (IF IsFlip(entries[i], entries[j])
        THEN <<DirectContradiction(entries[i], entries[j])>>
        ELSE <<>>) \o DirectFrom(entries, i, j + 1)

\* Only neighbouring entries of an item compared.
DirectOfItemAdjacent(entries) ==
  LET RECURSIVE Adj(_)
      Adj(i) ==
        IF i + 1 > Len(entries) THEN <<>>
        ELSE (IF IsFlip(entries[i], entries[i + 1])
              THEN <<DirectContradiction(entries[i], entries[i + 1])>>
              ELSE <<>>) \o Adj(i + 1)
  IN  Adj(1)

\* Only the flips against the latest entry of the item: what a later
\* decision would leave of the earlier conflicts.
DirectOfItemLatest(entries) ==
  LET RECURSIVE Last(_)
      Last(i) ==
        IF i >= Len(entries) THEN <<>>
        ELSE (IF IsFlip(entries[i], entries[Len(entries)])
              THEN <<DirectContradiction(entries[i], entries[Len(entries)])>>
              ELSE <<>>) \o Last(i + 1)
  IN  Last(1)

DirectOfItem(entries) == DirectFrom(entries, 1, 2)

RECURSIVE DirectOfItems(_, _)
DirectOfItems(fb, ids) ==
  IF ids = <<>> THEN <<>>
  ELSE DirectOfItem(ByItem(fb, Head(ids))) \o DirectOfItems(fb, Tail(ids))

DirectContradictions(fb) == DirectOfItems(fb, ItemOrder(fb))

\* themes[theme]: the commented entries tagged with the theme, ledger order.
Themes(fb, theme) ==
  LET Commented(e) == Truthy(e.comment)
      Tagged(e) == MatchesTheme(e, theme)
  IN  Filter(Filter(fb, Commented), Tagged)

\* substring(0, 60) of a comment, as characters.
Substring60(c) ==
  IF c = Undefined THEN Undefined
  ELSE SubSeq(Chars(c), 1, IF Len(Chars(c)) < DescriptionChars THEN Len(Chars(c))
                                                              ELSE DescriptionChars)

ThematicContradiction(e1, e2) ==
  [type |-> "thematic", entry1 |-> e1, entry2 |-> e2,
   description |-> <<"Mixed signals: ", Substring60(e1.comment), " vs ",
                     Substring60(e2.comment)>>]

\* The first tagged entry of each side instead of the last.
ThematicOfAxisFirst(fb, axis) ==
  LET ta == Themes(fb, axis[1])
      tb == Themes(fb, axis[2])
  IN  IF Len(ta) > 0 /\ Len(tb) > 0
      THEN <<ThematicContradiction(ta[1], tb[1])>>
      ELSE <<>>

\* A contradiction as soon as one side of the axis is tagged.
ThematicOfAxisOneSide(fb, axis) ==
  LET ta == Themes(fb, axis[1])
      tb == Themes(fb, axis[2])
      all == ta \o tb
  IN  IF Len(all) > 0
      THEN <<ThematicContradiction(all[1], all[Len(all)])>>
      ELSE <<>>

\* One pass of pairs.forEach for the axis <<a, b>>.
ThematicOfAxis(fb, axis) ==
  LET ta == Themes(fb, axis[1])
      tb == Themes(fb, axis[2])
  IN  IF Len(ta) > 0 /\ Len(tb) > 0
      THEN <<ThematicContradiction(ta[Len(ta)], tb[Len(tb)])>>
      ELSE <<>>

ThematicContradictions(fb) ==
  ThematicOfAxis(fb, pairs[1]) \o ThematicOfAxis(fb, pairs[2])
    \o ThematicOfAxis(fb, pairs[3])

\* The thematic pass before the direct one.
FindContradictionsThematicFirst(fb) ==
  ThematicContradictions(fb) \o DirectContradictions(fb)

\* findContradictions(projectId), for the ledger fb that getFeedback reads.
FindContradictions(fb) == DirectContradictions(fb) \o ThematicContradictions(fb)

(***************************************************************************)
(* The store's state and the requests in flight.                           *)
(***************************************************************************)
VARIABLES
  projects,   \* _projects.json: the project index, a list of projects
  items,      \* {projectId}_{stage}.json: items[pid][stage], a list of items
  feedback,   \* {projectId}_feedback.json: feedback[pid], the ledger
  patterns,   \* {projectId}_patterns.json: patterns[pid], the summary
  uuidCtr,    \* uuid(): the number of ids drawn so far
  now,        \* Date.now()
  procs,      \* async handlers suspended at an await, with their locals
  res,        \* the last response a handler sent
  lastRun     \* history, per project: "changed" or "clean" when a scripts
              \* batch run has responded with success and no concept has
              \* changed status since the response ("clean": nor since the
              \* run selected its concepts), "none" otherwise

vars == <<projects, items, feedback, patterns, uuidCtr, now, procs, res, lastRun>>

Stages == {"strategies", "concepts", "scripts", "storyboards"}
\* An enumeration that lets the status done through.
StatusesAndDone == {"pending", "approved", "rejected", "revision", "done"}

Statuses == {"pending", "approved", "rejected", "revision"}

\* uuid() values that createProject draws, and a project id that a client
\* sends although no project has it.
NewProjectIds == {"p1"}
UnknownProject == "px"
AllProjectIds == NewProjectIds \cup {UnknownProject}

Idle == [kind |-> "idle"]
Slots == 1..MaxProcs
HasFreeSlot == \E k \in Slots : procs[k] = Idle
FreeSlot == CHOOSE k \in Slots : procs[k] = Idle /\ \A j \in 1..(k - 1) : procs[j] # Idle

Init ==
  /\ projects = <<>>
  /\ items = [pid \in AllProjectIds |-> [st \in Stages |-> <<>>]]
  /\ feedback = [pid \in AllProjectIds |-> <<>>]
  /\ patterns = [pid \in AllProjectIds |-> EmptyPatterns]
  /\ uuidCtr = 0
  /\ now = 1
  /\ procs = [k \in Slots |-> Idle]
  /\ res = [endpoint |-> "none", status |-> 0]
  /\ lastRun = [pid \in AllProjectIds |-> "none"]

\* Ids a client can name: those of the projects it was told of, or a wrong one.
KnownProjectIds == {projects[i].id : i \in 1..Len(projects)}
RequestProjectIds == KnownProjectIds \cup {UnknownProject}

(***************************************************************************)
(* store.js: the functions over documents, as values.                      *)
(***************************************************************************)
\* { ...r, ...u }
Spread(r, u) ==
  [k \in (DOMAIN r) \cup (DOMAIN u) |-> IF k \in DOMAIN u THEN u[k] ELSE r[k]]

\* The project index after setItems touched projectId at time t.
Touch(prjs, pid, t) ==
  [i \in 1..Len(prjs) |->
     IF i = (LET Is(p) == p.id = pid IN FindIndex(prjs, Is))
     THEN [prjs[i] EXCEPT !.updatedAt = t]
     ELSE prjs[i]]

\* addItems: the stage document after adding newItems to existing.
AddItems(existing, newItems) ==
  LET existingIds == {existing[i].id : i \in 1..Len(existing)}
      Fresh(it) == it.id \notin existingIds
  IN  existing \o Filter(newItems, Fresh)

\* An update that takes the item out and pushes the merged item at the end.
UpdateItemMovingLast(its, itemId, updates) ==
  LET Is(it) == it.id = itemId
      Other(it) == it.id # itemId
      idx == FindIndex(its, Is)
  IN  IF idx = 0 THEN its
      ELSE Append(Filter(its, Other), Spread(its[idx], updates))

\* updateItem: the stage document after merging updates into item itemId.
UpdateItem(its, itemId, updates) ==
  LET Is(it) == it.id = itemId
      idx == FindIndex(its, Is)
  IN  IF idx = 0 THEN its
      ELSE [its EXCEPT ![idx] = Spread(its[idx], updates)]

\* addFeedback: the ledger after appending entry, enriched with a fresh id
\* and the time (the routes pass neither).
AddFeedback(fb, entry, id, t) ==
  Append(fb, Spread(entry, [id |-> id, timestamp |-> t]))

\* A field of a JS object, undefined when the object has no such field.
Get(r, k) == IF k \in DOMAIN r THEN r[k] ELSE Undefined

\* getItems(projectId, stage): the document {projectId}_{stage}.json.  The
\* stage is a path or body parameter that no handler validates, and the
\* ledger is the document of the stage name "feedback".
GetItems(pid, stage) ==
  IF stage = "feedback" THEN feedback[pid] ELSE items[pid][stage]

\* getProject(projectId): the project of the index, or null.
GetProject(pid) ==
  LET Is(p) == p.id = pid
      idx == FindIndex(projects, Is)
  IN  IF idx = 0 THEN Null ELSE projects[idx]

\* getFullContext(projectId): the documents of the project as they are now,
\* and the summary of counts.
GetFullContext(pid) ==
  LET fb == feedback[pid]
      stored == patterns[pid]
      contradictions == FindContradictions(fb)
  IN  [project |-> GetProject(pid),
       strategies |-> GetItems(pid, "strategies"),
       concepts |-> GetItems(pid, "concepts"),
       scripts |-> GetItems(pid, "scripts"),
       feedback |-> fb,
       patterns |-> stored,
       contradictions |-> contradictions,
       summary |-> [totalFeedback |-> Len(fb),
                    approvedCount |-> Len(Filter(fb, IsApproved)),
                    rejectedCount |-> Len(Filter(fb, IsRejected)),
                    revisionCount |-> Len(Filter(fb, IsRevision)),
                    activeContradictions |-> Len(contradictions),
                    learnedRules |-> Len(stored.rules)]]

RequestStages == Stages \cup {"feedback"}

\* The ids in a document, and an id that no document holds.  Ids are
\* strings: Uuid(n) is the n-th value uuid() returns.
IdsOf(its) == {its[i].id : i \in 1..Len(its)}
MissingId == "id-missing"

\* A response that carries no more than its endpoint and HTTP status.
Reply(endpoint, status) == [endpoint |-> endpoint, status |-> status]

\* The history of concept status changes: a change on project pid resets
\* lastRun and marks the scripts batch runs in flight.
ConceptChanged(pid, stage, before, after) ==
  /\ stage = "concepts"
  /\ \E i \in 1..Len(before) : before[i].status # after[i].status

MarkRuns(ps, pid, changed) ==
  [k \in Slots |->
     IF changed /\ ps[k].kind = "scriptsBatch" /\ ps[k].pid = pid
     THEN [ps[k] EXCEPT !.changed = TRUE]
     ELSE ps[k]]

(***************************************************************************)
(* routes/feedback.js: the review endpoints.                               *)
(***************************************************************************)
\* The ledger action recorded for a new status, with revision recorded as
\* a comment.
FeedbackActionNoRevision(status) ==
  IF status = "approved" THEN "approved"
  ELSE IF status = "rejected" THEN "rejected"
  ELSE "commented"

\* The ledger action recorded for a new status.
FeedbackAction(status) ==
  IF status = "approved" THEN "approved"
  ELSE IF status = "rejected" THEN "rejected"
  ELSE IF status = "revision" THEN "revision"
  ELSE "commented"

UserComment(text) == [text |-> text, author |-> "user"]

\* item.comments || []
CommentsOf(item) ==
  IF Get(item, "comments") = Undefined THEN <<>> ELSE item.comments

\* The updates the status endpoint passes to updateItem.
StatusUpdates(item, status, comment) ==
  IF Truthy(comment)
  THEN [status |-> status,
        comments |-> Append(CommentsOf(item), UserComment(comment))]
  ELSE [status |-> status]

\* The updates the comment endpoint passes to updateItem.
CommentUpdates(item, comment) ==
  [comments |-> Append(CommentsOf(item), UserComment(comment))]

\* The writes shared by the two review endpoints: updateItem (and the
\* setItems inside it), then addFeedback (and the updatePatterns inside it).
Review(endpoint, pid, stage, itemId, item, updates, entry) ==
  LET before == GetItems(pid, stage)
      after == UpdateItem(before, itemId, updates)
      ledger == IF stage = "feedback" THEN after ELSE feedback[pid]
      appended == AddFeedback(ledger, entry, Uuid(uuidCtr + 1), now)
      changed == ConceptChanged(pid, stage, before, after)
  IN  /\ Len(feedback[pid]) < MaxLedger
      /\ items' = IF stage = "feedback" THEN items
                  ELSE [items EXCEPT ![pid][stage] = after]
      /\ projects' = Touch(projects, pid, now)
      /\ feedback' = [feedback EXCEPT ![pid] = appended]
      /\ patterns' = [patterns EXCEPT ![pid] = UpdatePatterns(patterns[pid], appended)]
      /\ uuidCtr' = uuidCtr + 1
      /\ res' = Reply(endpoint, 200)
      /\ lastRun' = [lastRun EXCEPT ![pid] = IF changed THEN "none" ELSE lastRun[pid]]
      /\ procs' = MarkRuns(procs, pid, changed)
      /\ UNCHANGED now

\* A refusal sent after an entry for the request went to every ledger.
RejectAfterAppend(endpoint, status) ==
  /\ res' = Reply(endpoint, status)
  /\ feedback' = [pid \in AllProjectIds |->
                   IF Len(feedback[pid]) < MaxLedger
                   THEN AddFeedback(feedback[pid],
                                    [itemId |-> MissingId, itemTitle |-> Undefined,
                                     stage |-> "concepts", action |-> "commented",
                                     comment |-> Undefined],
                                    Uuid(uuidCtr + 1), now)
                   ELSE feedback[pid]]
  /\ UNCHANGED <<projects, items, patterns, uuidCtr, now, procs, lastRun>>

\* An early return with an error status: nothing is read or written.
Reject(endpoint, status) ==
  /\ res' = Reply(endpoint, status)
  /\ UNCHANGED <<projects, items, feedback, patterns, uuidCtr, now, procs, lastRun>>

\* POST /items/:projectId/:stage/:itemId/status
PostStatus(pid, stage, itemId, status, comment) ==
  IF status \notin Statuses THEN Reject("status", 400)
  ELSE LET its == GetItems(pid, stage)
           Is(it) == it.id = itemId
           idx == FindIndex(its, Is)
       IN  IF idx = 0 THEN Reject("status", 404)
           ELSE Review("status", pid, stage, itemId, its[idx],
                       StatusUpdates(its[idx], status, comment),
                       [itemId |-> itemId,
                        itemTitle |-> Get(its[idx], "title"),
                        stage |-> stage,
                        action |-> FeedbackAction(status),
                        comment |-> IF Truthy(comment) THEN comment ELSE Undefined])

\* A check that lets a comment of blanks through.
CommentMissingUntrimmed(comment) ==
  comment = Undefined \/ Len(Chars(comment)) = 0

\* !comment?.trim()
CommentMissing(comment) ==
  comment = Undefined \/ Len(Trim(Chars(comment))) = 0

\* POST /items/:projectId/:stage/:itemId/comment
PostComment(pid, stage, itemId, comment) ==
  IF CommentMissing(comment) THEN Reject("comment", 400)
  ELSE LET its == GetItems(pid, stage)
           Is(it) == it.id = itemId
           idx == FindIndex(its, Is)
       IN  IF idx = 0 THEN Reject("comment", 404)
           ELSE Review("comment", pid, stage, itemId, its[idx],
                       CommentUpdates(its[idx], comment),
                       [itemId |-> itemId,
                        itemTitle |-> Get(its[idx], "title"),
                        stage |-> stage,
                        action |-> "commented",
                        comment |-> comment])

\* The name of a project as the creation request carries it.
ProjectNames == {"Matiks", "  "}
NameChars(name) ==
  IF name = "Matiks" THEN <<"M", "a", "t", "i", "k", "s">> ELSE Chars(name)

\* POST /projects, and createProject behind it.
PostProjects(name) ==
  IF name = Undefined \/ Len(Trim(NameChars(name))) = 0
  THEN Reject("projects", 400)
  ELSE \E id \in NewProjectIds \ KnownProjectIds :
         /\ projects' = Append(projects,
                               [id |-> id, name |-> Trim(NameChars(name)),
                                updatedAt |-> now])
         /\ items' = [items EXCEPT ![id] = [st \in Stages |-> <<>>]]
         /\ feedback' = [feedback EXCEPT ![id] = <<>>]
         /\ patterns' = [patterns EXCEPT ![id] = EmptyPatterns]
         /\ res' = Reply("projects", 200)
         /\ UNCHANGED <<uuidCtr, now, procs, lastRun>>

\* Date.now() moves on.
Tick ==
  /\ now < MaxNow
  /\ now' = now + 1
  /\ UNCHANGED <<projects, items, feedback, patterns, uuidCtr, procs, res, lastRun>>

(***************************************************************************)
(* routes/generate.js: the generation endpoints.  A handler that awaits    *)
(* the provider is suspended in procs with the locals of its closure and   *)
(* resumes in a later step, when the provider returns or throws; the code  *)
(* between two awaits runs in one step.                                    *)
(***************************************************************************)
Suspend(p) == [procs EXCEPT ![FreeSlot] = p]
Resume(k) == [procs EXCEPT ![k] = Idle]

\* The writes of setItems on a pipeline stage, with the rest left alone.
SetItems(pid, stage, its) ==
  /\ items' = [items EXCEPT ![pid][stage] = its]
  /\ projects' = Touch(projects, pid, now)

\* A handler ends in its catch block: 500, nothing written.
Throw(k, endpoint) ==
  /\ procs' = Resume(k)
  /\ res' = Reply(endpoint, 500)
  /\ UNCHANGED <<projects, items, feedback, patterns, uuidCtr, now, lastRun>>

\* The texts a provider call may return, and their characters.
ProviderTexts ==
  {"",
   "No ideas today.",
   "[sic] no ideas",
   "{oops}",
   "{\"title\":\"Hook A\"}",
   "Sure: [{\"title\":\"Hook A\"}]",
   "[{\"title\":\"Hook A\"},{\"title\":\"Hook B\"}]"}

TextChars(t) ==
  CASE t = "" ->
         <<>>
    [] t = "No ideas today." ->
         <<"N", "o", " ", "i", "d", "e", "a", "s", " ", "t", "o", "d", "a", "y", ".">>
    [] t = "[sic] no ideas" ->
         <<"[", "s", "i", "c", "]", " ", "n", "o", " ", "i", "d", "e", "a", "s">>
    [] t = "{oops}" ->
         <<"{", "o", "o", "p", "s", "}">>
    [] t = "{\"title\":\"Hook A\"}" ->
         <<"{", "\"", "t", "i", "t", "l", "e", "\"", ":", "\"", "H", "o", "o", "k", " ", "A", "\"", "}">>
    [] t = "Sure: [{\"title\":\"Hook A\"}]" ->
         <<"S", "u", "r", "e", ":", " ", "[", "{", "\"", "t", "i", "t", "l", "e", "\"", ":", "\"", "H", "o", "o", "k", " ", "A", "\"", "}", "]">>
    [] t = "[{\"title\":\"Hook A\"},{\"title\":\"Hook B\"}]" ->
         <<"[", "{", "\"", "t", "i", "t", "l", "e", "\"", ":", "\"", "H", "o", "o", "k", " ", "A", "\"", "}", ",", "{", "\"", "t", "i", "t", "l", "e", "\"", ":", "\"", "H", "o", "o", "k", " ", "B", "\"", "}", "]">>

\* text.match(/\[[\s\S]*\]/) and text.match(/\{[\s\S]*\}/): from the first
\* opening character to the last closing one after it; <<>> when there is
\* no such pair (a match is never empty).
NoMatch == <<>>
Match(cs, open, close) ==
  LET opens == {i \in 1..Len(cs) : cs[i] = open}
      first == CHOOSE i \in opens : \A j \in opens : i <= j
      closes == {i \in 1..Len(cs) : cs[i] = close /\ i > first}
      last == CHOOSE i \in closes : \A j \in closes : j <= i
  IN  IF opens = {} THEN NoMatch
      ELSE IF closes = {} THEN NoMatch
      ELSE SubSeq(cs, first, last)

\* JSON.parse: the value of the documents that are JSON, by what a
\* handler reads of it (the titles of an array of objects); a syntax error
\* for every other character sequence.
ParseError == [kind |-> "error"]
JsonParse(cs) ==
  CASE cs = <<"[", "{", "\"", "t", "i", "t", "l", "e", "\"", ":", "\"", "H", "o", "o", "k", " ", "A", "\"", "}", "]">> ->
         [kind |-> "array", titles |-> <<"Hook A">>]
    [] cs = <<"[", "{", "\"", "t", "i", "t", "l", "e", "\"", ":", "\"", "H", "o", "o", "k", " ", "A", "\"", "}", ",", "{", "\"", "t", "i", "t", "l", "e", "\"", ":", "\"", "H", "o", "o", "k", " ", "B", "\"", "}", "]">> ->
         [kind |-> "array", titles |-> <<"Hook A", "Hook B">>]
    [] cs = <<"{", "\"", "t", "i", "t", "l", "e", "\"", ":", "\"", "H", "o", "o", "k", " ", "A", "\"", "}">> ->
         [kind |-> "object"]
    [] OTHER -> ParseError

\* A generate() that gives up on a text it cannot parse.
GenerateStrict(text) ==
  LET jsonMatch == Match(TextChars(text), "[", "]")
  IN  IF jsonMatch # NoMatch THEN JsonParse(jsonMatch) ELSE ParseError

\* What generate() returns for the provider's text: the parsed array, the
\* parsed object, or the raw text when neither parses.
Generate(text) ==
  LET jsonMatch == Match(TextChars(text), "[", "]")
      objMatch == Match(TextChars(text), "{", "}")
  IN  IF jsonMatch # NoMatch /\ JsonParse(jsonMatch) # ParseError
      THEN JsonParse(jsonMatch)
      ELSE IF objMatch # NoMatch /\ JsonParse(objMatch) # ParseError
      THEN JsonParse(objMatch)
      ELSE [kind |-> "raw", raw |-> text]

ConceptTitles == {"Hook A", "Hook B"}
ProviderResults == {Generate(t) : t \in ProviderTexts}

NewItem(id, title, parentId) ==
  [id |-> id, title |-> title, status |-> "pending", comments |-> <<>>,
   parentId |-> parentId]

\* !projectId and the like: a required id of the body that is missing.
Absent(v) == v \in {Undefined, Null, ""}

\* A strategy item: as the other items, without a parentId.
StrategyItem(id, title) ==
  [id |-> id, title |-> title, status |-> "pending", comments |-> <<>>]

\* POST /strategies, up to the await of generate().
PostStrategies(pid) ==
  IF Absent(pid) THEN Reject("strategies", 400)
  ELSE /\ HasFreeSlot
       /\ procs' = Suspend([kind |-> "strategies", pid |-> pid])
       /\ UNCHANGED <<projects, items, feedback, patterns, uuidCtr, now, res, lastRun>>

\* POST /strategies, from the return of generate() on.
StrategiesReturn(k, result) ==
  /\ procs[k].kind = "strategies"
  /\ LET pid == procs[k].pid
     IN  IF result.kind = "array"
         THEN LET n == Len(result.titles)
                  new == [i \in 1..n |-> StrategyItem(Uuid(uuidCtr + i), result.titles[i])]
              IN  /\ Len(items[pid]["strategies"]) + n <= MaxItems
                  /\ SetItems(pid, "strategies", AddItems(items[pid]["strategies"], new))
                  /\ uuidCtr' = uuidCtr + n
                  /\ res' = [endpoint |-> "strategies", status |-> 200, generated |-> n]
         ELSE /\ res' = [endpoint |-> "strategies", status |-> 200, raw |-> result]
              /\ UNCHANGED <<projects, items, uuidCtr>>
  /\ procs' = Resume(k)
  /\ UNCHANGED <<feedback, patterns, now, lastRun>>

StrategiesThrow(k) == procs[k].kind = "strategies" /\ Throw(k, "strategies")

\* POST /concepts, up to the await of generate().
PostConcepts(pid, strategyId) ==
  IF Absent(pid) THEN Reject("concepts", 400)
  ELSE /\ HasFreeSlot
       /\ procs' = Suspend([kind |-> "concepts", pid |-> pid, strategyId |-> strategyId])
       /\ UNCHANGED <<projects, items, feedback, patterns, uuidCtr, now, res, lastRun>>

\* POST /concepts, from the return of generate() on.
ConceptsReturn(k, result) ==
  /\ procs[k].kind = "concepts"
  /\ LET pid == procs[k].pid
         sid == procs[k].strategyId
     IN  IF result.kind = "array"
         THEN LET n == Len(result.titles)
                  new == [i \in 1..n |->
                            NewItem(Uuid(uuidCtr + i), result.titles[i],
                                    IF Absent(sid) THEN Null ELSE sid)]
              IN  /\ Len(items[pid]["concepts"]) + n <= MaxItems
                  /\ SetItems(pid, "concepts", AddItems(items[pid]["concepts"], new))
                  /\ uuidCtr' = uuidCtr + n
                  /\ res' = [endpoint |-> "concepts", status |-> 200, generated |-> n]
         ELSE /\ res' = [endpoint |-> "concepts", status |-> 200, raw |-> result]
              /\ UNCHANGED <<projects, items, uuidCtr>>
  /\ procs' = Resume(k)
  /\ UNCHANGED <<feedback, patterns, now, lastRun>>

ConceptsThrow(k) == procs[k].kind = "concepts" /\ Throw(k, "concepts")

ScriptTitle(concept) == "Script: " \o concept.title

\* The script item both script endpoints build for a concept.
ScriptItem(id, concept) == NewItem(id, ScriptTitle(concept), concept.id)

\* POST /scripts, up to the await of generate().
PostScripts(pid, conceptId) ==
  LET concepts == items[pid]["concepts"]
      Is(c) == c.id = conceptId
      idx == FindIndex(concepts, Is)
  IN  IF Absent(pid) \/ Absent(conceptId) THEN Reject("scripts", 400)
      ELSE IF idx = 0 THEN Reject("scripts", 404)
      ELSE /\ HasFreeSlot
           /\ procs' = Suspend([kind |-> "script", pid |-> pid, concept |-> concepts[idx]])
           /\ UNCHANGED <<projects, items, feedback, patterns, uuidCtr, now, res, lastRun>>

\* POST /scripts, from the return of generate() on.
ScriptsReturn(k) ==
  /\ procs[k].kind = "script"
  /\ LET pid == procs[k].pid
     IN  /\ Len(items[pid]["scripts"]) < MaxDownstream
         /\ SetItems(pid, "scripts",
                     AddItems(items[pid]["scripts"], <<ScriptItem(Uuid(uuidCtr + 1), procs[k].concept)>>))
  /\ uuidCtr' = uuidCtr + 1
  /\ res' = [endpoint |-> "scripts", status |-> 200, generated |-> 1]
  /\ procs' = Resume(k)
  /\ UNCHANGED <<feedback, patterns, now, lastRun>>

ScriptsThrow(k) == procs[k].kind = "script" /\ Throw(k, "scripts")

\* A selection that takes every approved concept, scripted or not.
ToGenerateAllApproved(upstream, downstream) ==
  LET Approved(c) == c.status = "approved"
  IN  Filter(upstream, Approved)

\* A selection that takes every concept without a script, approved or not.
ToGenerateAnyStatus(upstream, downstream) ==
  LET existingParentIds == {downstream[i].parentId : i \in 1..Len(downstream)}
      Unprocessed(c) == c.id \notin existingParentIds
  IN  Filter(upstream, Unprocessed)

\* toGenerate: the approved upstream items that are the parentId of no
\* downstream item.
ToGenerate(upstream, downstream) ==
  LET Approved(c) == c.status = "approved"
      existingParentIds == {downstream[i].parentId : i \in 1..Len(downstream)}
      Unprocessed(c) == c.id \notin existingParentIds
  IN  Filter(Filter(upstream, Approved), Unprocessed)

\* POST /scripts/batch, up to the first await of generate().
PostScriptsBatch(pid) ==
  LET toGenerate == ToGenerate(items[pid]["concepts"], items[pid]["scripts"])
  IN  IF Absent(pid) THEN Reject("scripts/batch", 400)
      ELSE IF Len(toGenerate) = 0
      THEN /\ res' = [endpoint |-> "scripts/batch", status |-> 200, generated |-> 0,
                      message |-> "All approved concepts already have scripts."]
           /\ lastRun' = [lastRun EXCEPT ![pid] = "clean"]
           /\ UNCHANGED <<projects, items, feedback, patterns, uuidCtr, now, procs>>
      ELSE /\ HasFreeSlot
           /\ procs' = Suspend([kind |-> "scriptsBatch", pid |-> pid,
                                toGenerate |-> toGenerate, generated |-> <<>>,
                                changed |-> FALSE])
           /\ UNCHANGED <<projects, items, feedback, patterns, uuidCtr, now, res, lastRun>>

\* POST /scripts/batch, from one return of generate() to the next await,
\* or to the response after the last one.
ScriptsBatchReturn(k) ==
  /\ procs[k].kind = "scriptsBatch"
  /\ uuidCtr < MaxUuid
  /\ LET pid == procs[k].pid
         concept == procs[k].toGenerate[Len(procs[k].generated) + 1]
         generated == Append(procs[k].generated, ScriptItem(Uuid(uuidCtr + 1), concept))
     IN  /\ uuidCtr' = uuidCtr + 1
         /\ IF Len(generated) < Len(procs[k].toGenerate)
            THEN /\ procs' = [procs EXCEPT ![k].generated = generated]
                 /\ UNCHANGED <<projects, items, res, lastRun>>
            ELSE /\ Len(items[pid]["scripts"]) + Len(generated) <= MaxDownstream
                 /\ SetItems(pid, "scripts", AddItems(items[pid]["scripts"], generated))
                 /\ res' = [endpoint |-> "scripts/batch", status |-> 200,
                            generated |-> Len(generated)]
                 /\ lastRun' = [lastRun EXCEPT ![pid] = IF procs[k].changed THEN "changed" ELSE "clean"]
                 /\ procs' = Resume(k)
  /\ UNCHANGED <<feedback, patterns, now>>

ScriptsBatchThrow(k) == procs[k].kind = "scriptsBatch" /\ Throw(k, "scripts/batch")

(***************************************************************************)
(* routes/images.js: POST /storyboard.                                     *)
(***************************************************************************)
\* script.title.replace('Script: ', '')
StripScript(title) ==
  IF \E t \in ConceptTitles : title = "Script: " \o t
  THEN CHOOSE t \in ConceptTitles : title = "Script: " \o t
  ELSE title

\* The id of the n-th frame of a storyboard: a string, like every id a
\* request may name, and unique within its storyboard.
FrameId(n) == "frame" \o ToString(n)

\* A frame that keeps no trace of the failure of its image.
FrameNoError(id, ok) ==
  [id |-> id, imageUrl |-> IF ok THEN "url" ELSE Null, status |-> "pending"]

\* A generated frame, when the image provider returned and when it threw.
Frame(id, ok) ==
  IF ok THEN [id |-> id, imageUrl |-> "url", status |-> "pending"]
  ELSE [id |-> id, imageUrl |-> Null, error |-> "failed", status |-> "pending"]

Storyboard(id, script, frames) ==
  Spread(NewItem(id, "Board: " \o StripScript(script.title), script.id),
         [frames |-> frames])

\* POST /storyboard, up to the await of the prompt provider.
PostStoryboard(pid, scriptId) ==
  LET scripts == items[pid]["scripts"]
      Is(x) == x.id = scriptId
      idx == FindIndex(scripts, Is)
  IN  IF Absent(pid) \/ Absent(scriptId) THEN Reject("storyboard", 400)
      ELSE IF idx = 0 THEN Reject("storyboard", 404)
      ELSE /\ HasFreeSlot
           /\ procs' = Suspend([kind |-> "storyboard", pid |-> pid, script |-> scripts[idx],
                                phase |-> "prompt", frames |-> 0, generatedFrames |-> <<>>])
           /\ UNCHANGED <<projects, items, feedback, patterns, uuidCtr, now, res, lastRun>>

\* The save at the end of POST /storyboard.
SaveStoryboard(k, generatedFrames) ==
  LET pid == procs[k].pid
  IN  /\ Len(items[pid]["storyboards"]) < MaxBoards
      /\ SetItems(pid, "storyboards",
                  AddItems(items[pid]["storyboards"],
                           <<Storyboard(Uuid(uuidCtr + 1), procs[k].script, generatedFrames)>>))
      /\ res' = [endpoint |-> "storyboard", status |-> 200, generated |-> 1]
      /\ procs' = Resume(k)

\* The prompt provider returns a text that parses to n frame prompts.
StoryboardPrompt(k, n) ==
  /\ procs[k].kind = "storyboard" /\ procs[k].phase = "prompt"
  /\ IF n = 0
     THEN /\ procs' = Resume(k)
          /\ res' = Reply("storyboard", 500)
     ELSE /\ procs' = [procs EXCEPT ![k].phase = "frames", ![k].frames = n]
          /\ UNCHANGED res
  /\ UNCHANGED <<projects, items, feedback, patterns, uuidCtr, now, lastRun>>

\* The image provider returns (ok) or throws (~ok) for the next frame.
StoryboardFrame(k, ok) ==
  /\ procs[k].kind = "storyboard" /\ procs[k].phase = "frames"
  /\ LET generatedFrames ==
           Append(procs[k].generatedFrames,
                  Frame(FrameId(Len(procs[k].generatedFrames) + 1), ok))
     IN  IF Len(generatedFrames) < procs[k].frames
         THEN /\ procs' = [procs EXCEPT ![k].generatedFrames = generatedFrames]
              /\ UNCHANGED <<projects, items, uuidCtr, res>>
         ELSE /\ SaveStoryboard(k, generatedFrames)
              /\ uuidCtr' = uuidCtr + 1
  /\ UNCHANGED <<feedback, patterns, now, lastRun>>

StoryboardThrow(k) ==
  /\ procs[k].kind = "storyboard" /\ procs[k].phase = "prompt"
  /\ Throw(k, "storyboard")

(***************************************************************************)
(* routes/images.js: POST /storyboard/batch.  The handler answers and      *)
(* then runs its loop in the background; the run in procs carries the      *)
(* number of scripts it is through with and, as history, the log of what   *)
(* it did in the order the code does it: the response, each provider       *)
(* call, each write of a storyboard, each failure caught.                  *)
(***************************************************************************)
Event(ev, script) == [ev |-> ev, script |-> script.id]

\* toGenerate: the approved scripts that are the parentId of no storyboard.
BoardsToGenerate(scripts, existing) ==
  LET Approved(x) == x.status = "approved"
      existingParentIds == {existing[i].parentId : i \in 1..Len(existing)}
      Unprocessed(x) == x.id \notin existingParentIds
  IN  Filter(Filter(scripts, Approved), Unprocessed)

\* A run that keeps its storyboards to itself.
SavedBoardsDeferred(existing, board) == existing

\* The storyboards document after the addItems that ends one pass of the
\* loop.
SavedBoards(existing, board) == AddItems(existing, <<board>>)

\* POST /storyboard/batch, up to the first await of the background loop.
PostStoryboardBatch(pid) ==
  IF Absent(pid) THEN Reject("storyboard/batch", 400)
  ELSE LET toGenerate == BoardsToGenerate(items[pid]["scripts"], items[pid]["storyboards"])
       IN  IF Len(toGenerate) = 0
           THEN /\ res' = [endpoint |-> "storyboard/batch", status |-> 200, generated |-> 0,
                           message |-> "All approved scripts already have storyboards."]
                /\ UNCHANGED <<projects, items, feedback, patterns, uuidCtr, now, procs, lastRun>>
           ELSE /\ HasFreeSlot
                /\ res' = [endpoint |-> "storyboard/batch", status |-> 200,
                           state |-> "generating", count |-> Len(toGenerate)]
                /\ procs' = Suspend([kind |-> "storyboardBatch", pid |-> pid,
                                     toGenerate |-> toGenerate, done |-> 0,
                                     phase |-> "prompt", frames |-> 0,
                                     generatedFrames |-> <<>>,
                                     log |-> <<[ev |-> "respond", script |-> Undefined],
                                               Event("prompt", toGenerate[1])>>])
                /\ UNCHANGED <<projects, items, feedback, patterns, uuidCtr, now, lastRun>>

\* The run after the pass for its current script ended with event ev: on
\* to the next script's prompt call, or the end of the loop.
NextScript(k, ev) ==
  LET run == procs[k]
      script == run.toGenerate[run.done + 1]
      log == Append(run.log, Event(ev, script))
  IN  IF run.done + 1 < Len(run.toGenerate)
      THEN [procs EXCEPT ![k] =
              [run EXCEPT !.done = run.done + 1, !.phase = "prompt", !.frames = 0,
                          !.generatedFrames = <<>>,
                          !.log = Append(log, Event("prompt", run.toGenerate[run.done + 2]))]]
      ELSE Resume(k)

\* The addItems of one pass, with the frames generated for the script.
SaveBatchBoard(k, generatedFrames) ==
  LET run == procs[k]
      script == run.toGenerate[run.done + 1]
  IN  /\ Len(items[run.pid]["storyboards"]) < MaxBatchBoards
      /\ SetItems(run.pid, "storyboards",
                  SavedBoards(items[run.pid]["storyboards"],
                              Storyboard(Uuid(uuidCtr + 1), script, generatedFrames)))
      /\ uuidCtr' = uuidCtr + 1
      /\ procs' = NextScript(k, "write")

\* The prompt provider returns a text that parses to n frame prompts; with
\* none the storyboard is saved without frames.
BatchPrompt(k, n) ==
  /\ procs[k].kind = "storyboardBatch" /\ procs[k].phase = "prompt"
  /\ IF n = 0
     THEN SaveBatchBoard(k, <<>>)
     ELSE /\ procs' = [procs EXCEPT ![k].phase = "frames", ![k].frames = n,
                                    ![k].log = Append(@, Event("image", procs[k].toGenerate[procs[k].done + 1]))]
          /\ UNCHANGED <<projects, items, uuidCtr>>
  /\ UNCHANGED <<feedback, patterns, now, res, lastRun>>

\* A catch around the loop instead of inside it: the throw ends the run.
BatchPromptThrowAborting(k) ==
  /\ procs[k].kind = "storyboardBatch" /\ procs[k].phase = "prompt"
  /\ procs' = Resume(k)
  /\ UNCHANGED <<projects, items, feedback, patterns, uuidCtr, now, res, lastRun>>

\* The prompt provider throws: the catch of the pass logs it and the loop
\* goes on.
BatchPromptThrow(k) ==
  /\ procs[k].kind = "storyboardBatch" /\ procs[k].phase = "prompt"
  /\ procs' = NextScript(k, "fail")
  /\ UNCHANGED <<projects, items, feedback, patterns, uuidCtr, now, res, lastRun>>

\* The image provider returns (ok) or throws (~ok) for the next frame.
BatchFrame(k, ok) ==
  /\ procs[k].kind = "storyboardBatch" /\ procs[k].phase = "frames"
  /\ LET generatedFrames ==
           Append(procs[k].generatedFrames,
                  Frame(FrameId(Len(procs[k].generatedFrames) + 1), ok))
     IN  IF Len(generatedFrames) < procs[k].frames
         THEN /\ procs' = [procs EXCEPT ![k].generatedFrames = generatedFrames,
                                        ![k].log = Append(@, Event("image", procs[k].toGenerate[procs[k].done + 1]))]
              /\ UNCHANGED <<projects, items, uuidCtr>>
         ELSE SaveBatchBoard(k, generatedFrames)
  /\ UNCHANGED <<feedback, patterns, now, res, lastRun>>

\* GET /items/:projectId/:stage: the listing of a stage document.
GetListing(pid, stage) ==
  /\ res' = [endpoint |-> "items", status |-> 200, stage |-> stage,
             items |-> GetItems(pid, stage)]
  /\ UNCHANGED <<projects, items, feedback, patterns, uuidCtr, now, procs, lastRun>>

(***************************************************************************)
(* routes/images.js: POST /storyboard/reframe.                             *)
(***************************************************************************)
\* The frame after its image was regenerated.
Reframed(f) == Spread(f, [imageUrl |-> "url-2", error |-> Null])

\* updatedFrames: the frames of the storyboard as read, with frame frameId
\* regenerated.
UpdatedFrames(board, frameId) ==
  [i \in 1..Len(board.frames) |->
     IF board.frames[i].id # frameId THEN board.frames[i]
     ELSE Reframed(board.frames[i])]

\* POST /storyboard/reframe, up to its first await: of the prompt provider
\* when a direction is given, of the image provider otherwise.
PostReframe(pid, storyboardId, frameId, direction) ==
  LET storyboards == items[pid]["storyboards"]
      Is(x) == x.id = storyboardId
      idx == FindIndex(storyboards, Is)
      frames == IF idx = 0 THEN <<>>
                ELSE IF "frames" \notin DOMAIN storyboards[idx] THEN <<>>
                ELSE storyboards[idx].frames
      IsFrame(f) == f.id = frameId
  IN  IF Absent(pid) \/ Absent(storyboardId) \/ Absent(frameId)
      THEN Reject("storyboard/reframe", 400)
      ELSE IF idx = 0 THEN Reject("storyboard/reframe", 404)
      ELSE IF FindIndex(frames, IsFrame) = 0 THEN Reject("storyboard/reframe", 404)
      ELSE /\ HasFreeSlot
           /\ procs' = Suspend([kind |-> "reframe", pid |-> pid,
                                board |-> storyboards[idx], frameId |-> frameId,
                                phase |-> IF Truthy(direction) THEN "refine" ELSE "image"])
           /\ UNCHANGED <<projects, items, feedback, patterns, uuidCtr, now, res, lastRun>>

\* The prompt provider returns the refined prompt.
ReframeRefine(k) ==
  /\ procs[k].kind = "reframe" /\ procs[k].phase = "refine"
  /\ procs' = [procs EXCEPT ![k].phase = "image"]
  /\ UNCHANGED <<projects, items, feedback, patterns, uuidCtr, now, res, lastRun>>

\* The image provider returns: updateItem with the frames computed from
\* the storyboard read before the awaits.
ReframeReturn(k) ==
  /\ procs[k].kind = "reframe" /\ procs[k].phase = "image"
  /\ LET pid == procs[k].pid
         board == procs[k].board
     IN  SetItems(pid, "storyboards",
                  UpdateItem(items[pid]["storyboards"], board.id,
                             [frames |-> UpdatedFrames(board, procs[k].frameId)]))
  /\ res' = Reply("storyboard/reframe", 200)
  /\ procs' = Resume(k)
  /\ UNCHANGED <<feedback, patterns, uuidCtr, now, lastRun>>

\* Either provider throws.
ReframeThrow(k) == procs[k].kind = "reframe" /\ Throw(k, "storyboard/reframe")

(***************************************************************************)
(* routes/generate.js: POST /iterate.                                      *)
(***************************************************************************)
SystemComment == [text |-> "[AI] Iterated based on feedback. ", author |-> "system"]

\* POST /iterate, up to the await of generate().
PostIterate(pid, stage, itemId) ==
  LET its == GetItems(pid, stage)
      Is(it) == it.id = itemId
      idx == FindIndex(its, Is)
  IN  IF Absent(pid) \/ Absent(stage) \/ Absent(itemId) THEN Reject("iterate", 400)
      ELSE IF idx = 0 THEN Reject("iterate", 404)
      ELSE /\ HasFreeSlot
           /\ Len(CommentsOf(its[idx])) <= MaxComments
           /\ procs' = Suspend([kind |-> "iterate", pid |-> pid, stage |-> stage,
                                item |-> its[idx]])
           /\ UNCHANGED <<projects, items, feedback, patterns, uuidCtr, now, res, lastRun>>

\* An iteration that marks the item with a status of its own.
MergedIterated(item) ==
  Spread(item, [status |-> "iterated",
                comments |-> Append(item.comments, SystemComment)])

\* merged: the item as read before the await, with the status reset and
\* the system comment appended.
Merged(item) ==
  Spread(item, [status |-> "pending",
                comments |-> Append(item.comments, SystemComment)])

\* POST /iterate, from the return of generate() on.  Spreading
\* item.comments throws when the item read has no comments.
IterateReturn(k) ==
  /\ procs[k].kind = "iterate"
  /\ LET pid == procs[k].pid
         stage == procs[k].stage
         item == procs[k].item
     IN  IF Get(item, "comments") = Undefined THEN Throw(k, "iterate")
         ELSE LET before == GetItems(pid, stage)
                  after == UpdateItem(before, item.id, Merged(item))
                  changed == ConceptChanged(pid, stage, before, after)
              IN  /\ items' = IF stage = "feedback" THEN items
                              ELSE [items EXCEPT ![pid][stage] = after]
                  /\ feedback' = IF stage = "feedback"
                                 THEN [feedback EXCEPT ![pid] = after]
                                 ELSE feedback
                  /\ projects' = Touch(projects, pid, now)
                  /\ res' = Reply("iterate", 200)
                  /\ lastRun' = [lastRun EXCEPT ![pid] = IF changed THEN "none" ELSE lastRun[pid]]
                  /\ procs' = MarkRuns(Resume(k), pid, changed)
                  /\ UNCHANGED <<patterns, uuidCtr, now>>

IterateThrow(k) == procs[k].kind = "iterate" /\ Throw(k, "iterate")

(***************************************************************************)
(* store.js called directly: addFeedback with any entry.                   *)
(***************************************************************************)
StoreItemIds == {"item-a", "item-b"}
StoreActions == {"approved", "rejected", "revision", "commented"}
StoreComments == {Undefined, "  ", "Too long"}
StoreEntries ==
  [itemId : StoreItemIds, itemTitle : {"Hook A"}, stage : {"concepts"},
   action : StoreActions, comment : StoreComments]

\* addFeedback(projectId, entry), with the updatePatterns inside it.
StoreAddFeedback(pid, entry) ==
  /\ Len(feedback[pid]) < MaxAppends
  /\ feedback' = [feedback EXCEPT ![pid] = AddFeedback(feedback[pid], entry, Uuid(uuidCtr + 1), now)]
  /\ patterns' = [patterns EXCEPT ![pid] = UpdatePatterns(patterns[pid], feedback'[pid])]
  /\ uuidCtr' = uuidCtr + 1
  /\ UNCHANGED <<projects, items, now, procs, res, lastRun>>

NextStore ==
  \/ Tick
  \/ PostProjects("Matiks")
  \/ \E pid \in KnownProjectIds, entry \in StoreEntries : StoreAddFeedback(pid, entry)

SpecStore == Init /\ [][NextStore]_vars

\* Entries whose comments carry the keywords of the themes.
ThemeComments ==
  {Undefined, "nice", "Too long", "expand it", "trim and expand", "too dark", "darker"}
ThemeEntries ==
  [itemId : StoreItemIds, itemTitle : {"Hook A"}, stage : {"concepts"},
   action : {"commented", "revision"}, comment : ThemeComments]

NextThemes ==
  \/ PostProjects("Matiks")
  \/ \E pid \in KnownProjectIds, entry \in ThemeEntries : StoreAddFeedback(pid, entry)

SpecThemes == Init /\ [][NextThemes]_vars

(***************************************************************************)
(* Conflicting decisions: approvals and rejections whose comments carry    *)
(* theme keywords, appended by addFeedback, and the lookup of              *)
(* GET /contradictions/:projectId.                                         *)
(***************************************************************************)
\* The contradictions as returned: each with the uuid drawn at its push.
ContradictionIds(cs, n) == [i \in 1..Len(cs) |-> Spread(cs[i], [id |-> Uuid(n + i)])]

\* A lookup that clears the pattern summary of the project it reports on.
GetContradictionsClearing(pid) ==
  LET cs == FindContradictions(feedback[pid])
  IN  /\ uuidCtr < MaxDrawn
      /\ res' = [endpoint |-> "contradictions", status |-> 200,
                 contradictions |-> ContradictionIds(cs, uuidCtr)]
      /\ uuidCtr' = uuidCtr + Len(cs)
      /\ patterns' = [patterns EXCEPT ![pid] = EmptyPatterns]
      /\ UNCHANGED <<projects, items, feedback, now, procs, lastRun>>

\* GET /contradictions/:projectId.
GetContradictions(pid) ==
  LET cs == FindContradictions(feedback[pid])
  IN  /\ uuidCtr < MaxDrawn
      /\ res' = [endpoint |-> "contradictions", status |-> 200,
                 contradictions |-> ContradictionIds(cs, uuidCtr)]
      /\ uuidCtr' = uuidCtr + Len(cs)
      /\ UNCHANGED <<projects, items, feedback, patterns, now, procs, lastRun>>

\* Decisions on two items, bare or, on the first item, with a comment: an
\* approval that calls it too dark, a rejection that wants it darker, a
\* rejection that wants it both trimmed and expanded.
ConflictComments == {Undefined, "too dark", "darker", "trim and expand"}
ConflictEntries ==
  {e \in [itemId : StoreItemIds, itemTitle : {"Hook A"}, stage : {"concepts"},
          action : {"approved", "rejected"}, comment : ConflictComments] :
     \/ e.comment = Undefined
     \/ e.itemId = "item-a" /\ e.action = "approved" /\ e.comment = "too dark"
     \/ e.itemId = "item-a" /\ e.action = "rejected"
          /\ e.comment \in {"darker", "trim and expand"}}

\* addFeedback(projectId, entry) on a ledger of conflicting decisions.
ConflictAddFeedback(pid, entry) ==
  /\ Len(feedback[pid]) < MaxConflicts
  /\ feedback' = [feedback EXCEPT ![pid] = AddFeedback(feedback[pid], entry, Uuid(uuidCtr + 1), now)]
  /\ patterns' = [patterns EXCEPT ![pid] = UpdatePatterns(patterns[pid], feedback'[pid])]
  /\ uuidCtr' = uuidCtr + 1
  /\ UNCHANGED <<projects, items, now, procs, res, lastRun>>

NextConflicts ==
  \/ PostProjects("Matiks")
  \/ \E pid \in KnownProjectIds, entry \in ConflictEntries : ConflictAddFeedback(pid, entry)
  \/ \E pid \in RequestProjectIds : GetContradictions(pid)

SpecConflicts == Init /\ [][NextConflicts]_vars

(***************************************************************************)
(* The review of generated concepts: status changes, comments and          *)
(* iterations, on any stage name a request may carry.                      *)
(***************************************************************************)
StatusInputs == Statuses \cup {"done"}
CommentInputs == {Undefined, "", "  ", "Too long"}
ReviewStages == {"concepts", "feedback"}
TwoConcepts == [kind |-> "array", titles |-> <<"Hook A", "Hook B">>]

\* No request is awaiting a provider.
NoneInFlight == \A k \in Slots : procs[k] = Idle

NextReview ==
  \/ PostProjects("Matiks")
  \/ \E pid \in KnownProjectIds : NoneInFlight /\ PostConcepts(pid, Undefined)
  \/ \E k \in Slots : ConceptsReturn(k, TwoConcepts)
  \/ \E pid \in KnownProjectIds, stage \in ReviewStages :
       \E itemId \in IdsOf(GetItems(pid, stage)) \cup {MissingId} :
         \/ \E status \in StatusInputs, comment \in CommentInputs :
              PostStatus(pid, stage, itemId, status, comment)
         \/ \E comment \in CommentInputs : PostComment(pid, stage, itemId, comment)

SpecReview == Init /\ [][NextReview]_vars

(***************************************************************************)
(* The pipeline from concepts to storyboards: approvals and the            *)
(* generation endpoints, with every provider outcome.                      *)
(***************************************************************************)
PipelineStages == {"concepts"}
PipelineStatuses == {"approved", "rejected"}

NextPipeline ==
  \/ PostProjects("Matiks")
  \/ \E pid \in KnownProjectIds : NoneInFlight /\ PostConcepts(pid, Undefined)
  \/ \E pid \in KnownProjectIds, stage \in PipelineStages :
       \E itemId \in IdsOf(GetItems(pid, stage)), status \in PipelineStatuses :
         PostStatus(pid, stage, itemId, status, Undefined)
  \/ \E pid \in KnownProjectIds :
       \E conceptId \in IdsOf(items[pid]["concepts"]) \cup {MissingId} :
         NoneInFlight /\ PostScripts(pid, conceptId)
  \/ \E pid \in KnownProjectIds : NoneInFlight /\ PostScriptsBatch(pid)
  \/ \E pid \in KnownProjectIds :
       \E scriptId \in IdsOf(items[pid]["scripts"]) \cup {MissingId} :
         NoneInFlight /\ PostStoryboard(pid, scriptId)
  \/ \E k \in Slots :
       \/ ConceptsReturn(k, TwoConcepts)
       \/ ScriptsReturn(k)
       \/ ScriptsThrow(k)
       \/ ScriptsBatchReturn(k)
       \/ ScriptsBatchThrow(k)
       \/ \E n \in 0..MaxFrames : StoryboardPrompt(k, n)
       \/ \E ok \in BOOLEAN : StoryboardFrame(k, ok)
       \/ StoryboardThrow(k)

SpecPipeline == Init /\ [][NextPipeline]_vars

(***************************************************************************)
(* Storyboards in the background: two scripts of one concept, approved,    *)
(* a batch run over them, and listings read while it runs.                 *)
(***************************************************************************)
OneConcept == [kind |-> "array", titles |-> <<"Hook A">>]

NextBoards ==
  \/ PostProjects("Matiks")
  \/ \E pid \in KnownProjectIds : NoneInFlight /\ PostConcepts(pid, Undefined)
  \/ \E pid \in KnownProjectIds :
       \E conceptId \in IdsOf(items[pid]["concepts"]) :
         NoneInFlight /\ PostScripts(pid, conceptId)
  \/ \E pid \in KnownProjectIds :
       \E itemId \in IdsOf(items[pid]["scripts"]) :
         PostStatus(pid, "scripts", itemId, "approved", Undefined)
  \/ \E pid \in KnownProjectIds : NoneInFlight /\ PostStoryboardBatch(pid)
  \/ \E pid \in KnownProjectIds : GetListing(pid, "storyboards")
  \/ \E k \in Slots :
       \/ ConceptsReturn(k, OneConcept)
       \/ ScriptsReturn(k)
       \/ \E n \in 0..MaxFrames : BatchPrompt(k, n)
       \/ BatchPromptThrow(k)
       \/ \E ok \in BOOLEAN : BatchFrame(k, ok)

SpecBoards == Init /\ [][NextBoards]_vars

\* Every provider call of a background run returns or throws in the end.
BatchOutcome(k) ==
  \/ \E n \in 0..MaxFrames : BatchPrompt(k, n)
  \/ BatchPromptThrow(k)
  \/ \E ok \in BOOLEAN : BatchFrame(k, ok)

SpecBoardsLive == SpecBoards /\ \A k \in Slots : WF_vars(BatchOutcome(k))

(***************************************************************************)
(* Intake: strategies and concepts generated from any provider text, for   *)
(* any project id and strategy id a request may carry.                     *)
(***************************************************************************)
\* The provider is asked while fewer than MaxIntake ids have been drawn.
IntakeOpen == NoneInFlight /\ uuidCtr < MaxIntake

NextIntake ==
  \/ PostProjects("Matiks")
  \/ \E pid \in RequestProjectIds : IntakeOpen /\ PostStrategies(pid)
  \/ \E pid \in RequestProjectIds :
       \E strategyId \in IdsOf(items[pid]["strategies"]) \cup {MissingId, Undefined} :
         IntakeOpen /\ PostConcepts(pid, strategyId)
  \/ \E k \in Slots, t \in ProviderTexts :
       \/ StrategiesReturn(k, Generate(t))
       \/ ConceptsReturn(k, Generate(t))
  \/ \E k \in Slots : StrategiesThrow(k) \/ ConceptsThrow(k)

SpecIntake == Init /\ [][NextIntake]_vars

(***************************************************************************)
(* Refusals: a project with reviewed concepts, and the                     *)
(* requests that an endpoint refuses: a required field missing, a status   *)
(* outside the enumeration, a blank comment or name, an id that the        *)
(* addressed document does not hold.                                       *)
(***************************************************************************)
NameInputs == ProjectNames \cup {Undefined}
RefusalProjectIds == KnownProjectIds \cup {Undefined}
RefusalStatuses == {"approved", "done"}
RefusalComments == {Undefined, "", "  ", "nice"}
RefusalStages == {"concepts", Undefined}
RefusedIds == {MissingId, Undefined}

NextRefusals ==
  \/ \E name \in NameInputs : PostProjects(name)
  \/ PostStrategies(Undefined)
  \/ \E pid \in RefusalProjectIds : NoneInFlight /\ PostConcepts(pid, Undefined)
  \/ \E k \in Slots : ConceptsReturn(k, OneConcept)
  \/ \E pid \in KnownProjectIds :
       \E itemId \in IdsOf(items[pid]["concepts"]) \cup {MissingId} :
         \/ \E status \in RefusalStatuses :
              PostStatus(pid, "concepts", itemId, status, Undefined)
         \/ \E comment \in RefusalComments :
              PostComment(pid, "concepts", itemId, comment)
  \/ \E pid \in RefusalProjectIds, stage \in RefusalStages, itemId \in RefusedIds :
       PostIterate(pid, stage, itemId)
  \/ \E pid \in RefusalProjectIds, conceptId \in RefusedIds : PostScripts(pid, conceptId)
  \/ \E pid \in RefusalProjectIds, scriptId \in RefusedIds : PostStoryboard(pid, scriptId)
  \/ PostScriptsBatch(Undefined)
  \/ PostStoryboardBatch(Undefined)

SpecRefusals == Init /\ [][NextRefusals]_vars

\* Iteration against review: one project, one concept, the status and
\* comment endpoints and POST /iterate, whose provider call leaves the
\* other endpoints free to run before it returns.  The stage path
\* parameter is free text, so "feedback" is among the stages.
IterateStages == {"concepts", "feedback"}
IterateStatuses == {"approved", "revision", "done"}

NextIterate ==
  \/ PostProjects("Matiks")
  \/ \E pid \in KnownProjectIds : NoneInFlight /\ PostConcepts(pid, Undefined)
  \/ \E k \in Slots : ConceptsReturn(k, OneConcept)
  \/ \E k \in Slots : ConceptsThrow(k)
  \/ \E pid \in KnownProjectIds :
       \E itemId \in IdsOf(items[pid]["concepts"]) :
         \/ \E status \in IterateStatuses :
              PostStatus(pid, "concepts", itemId, status, Undefined)
         \/ PostComment(pid, "concepts", itemId, "nice")
  \/ \E pid \in KnownProjectIds, stage \in IterateStages :
       \E itemId \in IdsOf(GetItems(pid, stage)) : PostIterate(pid, stage, itemId)
  \/ \E k \in Slots : IterateReturn(k)
  \/ \E k \in Slots : IterateThrow(k)

SpecIterate == Init /\ [][NextIterate]_vars

(***************************************************************************)
(* Overlapping batch runs: one concept, approved, and batch requests for   *)
(* scripts and for storyboards that arrive while an earlier run is still   *)
(* generating.  Every script and storyboard here is made by a batch run.   *)
(***************************************************************************)
NextOverlap ==
  \/ PostProjects("Matiks")
  \/ \E pid \in KnownProjectIds :
       NoneInFlight /\ items[pid]["concepts"] = <<>> /\ PostConcepts(pid, Undefined)
  \/ \E pid \in KnownProjectIds, stage \in {"concepts", "scripts"} :
       \E itemId \in IdsOf(items[pid][stage]) :
         PostStatus(pid, stage, itemId, "approved", Undefined)
  \/ \E pid \in KnownProjectIds : PostScriptsBatch(pid)
  \/ \E pid \in KnownProjectIds : PostStoryboardBatch(pid)
  \/ \E k \in Slots :
       \/ ConceptsReturn(k, OneConcept)
       \/ ScriptsBatchReturn(k)
       \/ ScriptsBatchThrow(k)
       \/ \E n \in 0..MaxFrames : BatchPrompt(k, n)
       \/ BatchPromptThrow(k)
       \/ \E ok \in BOOLEAN : BatchFrame(k, ok)

SpecOverlap == Init /\ [][NextOverlap]_vars

(***************************************************************************)
(* Frames: one script, and storyboards for it from POST /storyboard and    *)
(* from a batch run, with every number of frame prompts and every outcome  *)
(* of each image call.                                                     *)
(***************************************************************************)
NextFrames ==
  \/ PostProjects("Matiks")
  \/ \E pid \in KnownProjectIds :
       NoneInFlight /\ items[pid]["concepts"] = <<>> /\ PostConcepts(pid, Undefined)
  \/ \E pid \in KnownProjectIds :
       \E conceptId \in IdsOf(items[pid]["concepts"]) :
         NoneInFlight /\ items[pid]["scripts"] = <<>> /\ PostScripts(pid, conceptId)
  \/ \E pid \in KnownProjectIds :
       \E itemId \in IdsOf(items[pid]["scripts"]) :
         PostStatus(pid, "scripts", itemId, "approved", Undefined)
  \/ \E pid \in KnownProjectIds :
       \E scriptId \in IdsOf(items[pid]["scripts"]) :
         NoneInFlight /\ PostStoryboard(pid, scriptId)
  \/ \E pid \in KnownProjectIds : NoneInFlight /\ PostStoryboardBatch(pid)
  \/ \E k \in Slots :
       \/ ConceptsReturn(k, OneConcept)
       \/ ScriptsReturn(k)
       \/ \E n \in 0..MaxFramePrompts : StoryboardPrompt(k, n)
       \/ \E ok \in BOOLEAN : StoryboardFrame(k, ok)
       \/ StoryboardThrow(k)
       \/ \E n \in 0..MaxFramePrompts : BatchPrompt(k, n)
       \/ BatchPromptThrow(k)
       \/ \E ok \in BOOLEAN : BatchFrame(k, ok)

SpecFrames == Init /\ [][NextFrames]_vars

(***************************************************************************)
(* The life of the items: two concepts, a script and a storyboard with its *)
(* frames, and on them the status and comment endpoints, POST /iterate and *)
(* POST /storyboard/reframe, which run while a provider call is awaited.   *)
(***************************************************************************)
Directions == {Undefined, "darker"}

\* The project has its storyboard.
HasBoard(pid) == items[pid]["storyboards"] # <<>>

NextLife ==
  \/ PostProjects("Matiks")
  \/ \E pid \in KnownProjectIds : NoneInFlight /\ PostConcepts(pid, Undefined)
  \/ \E pid \in KnownProjectIds :
       \E conceptId \in IdsOf(items[pid]["concepts"]) :
         NoneInFlight /\ items[pid]["scripts"] = <<>> /\ PostScripts(pid, conceptId)
  \/ \E pid \in KnownProjectIds :
       \E scriptId \in IdsOf(items[pid]["scripts"]) :
         NoneInFlight /\ PostStoryboard(pid, scriptId)
  \/ \E pid \in KnownProjectIds :
       \E itemId \in IdsOf(items[pid]["concepts"]) :
         /\ HasBoard(pid)
         /\ \/ PostStatus(pid, "concepts", itemId, "approved", Undefined)
            \/ NoneInFlight /\ PostIterate(pid, "concepts", itemId)
  \/ \E pid \in KnownProjectIds :
       \E itemId \in IdsOf(items[pid]["storyboards"]) :
         PostComment(pid, "storyboards", itemId, "nice")
  \/ \E pid \in KnownProjectIds :
       \E storyboardId \in IdsOf(items[pid]["storyboards"]) :
         \E n \in 1..MaxFramePrompts, direction \in Directions :
           NoneInFlight /\ PostReframe(pid, storyboardId, FrameId(n), direction)
  \/ \E k \in Slots :
       \/ ConceptsReturn(k, OneConcept)
       \/ ScriptsReturn(k)
       \/ StoryboardPrompt(k, MaxFramePrompts)
       \/ \E ok \in BOOLEAN : StoryboardFrame(k, ok)
       \/ IterateReturn(k)
       \/ IterateThrow(k)
       \/ ReframeRefine(k)
       \/ ReframeReturn(k)
       \/ ReframeThrow(k)

SpecLife == Init /\ [][NextLife]_vars

(***************************************************************************)
(* Properties.                                                             *)
(***************************************************************************)
IsPrefix(s, t) == Len(s) <= Len(t) /\ SubSeq(t, 1, Len(s)) = s

\* C1: the ledger of every project only grows by appends: every earlier
\* ledger is a prefix of every later one, whatever request is handled, so
\* no entry is edited, reordered or removed.
C1_LedgerAppendOnly ==
  [][\A pid \in AllProjectIds : IsPrefix(feedback[pid], feedback'[pid])]_vars

\* The summary the ledger fb calls for, built entry by entry.
RECURSIVE ExpectedPatterns(_)
ExpectedPatterns(fb) ==
  IF fb = <<>> THEN [approved |-> <<>>, rejected |-> <<>>, rules |-> <<>>]
  ELSE LET prev == ExpectedPatterns(SubSeq(fb, 1, Len(fb) - 1))
           e == fb[Len(fb)]
           decision == [title |-> e.itemTitle, stage |-> e.stage,
                        comment |-> e.comment, timestamp |-> e.timestamp]
           nonBlank == /\ e.comment # Undefined
                       /\ \E i \in 1..Len(Chars(e.comment)) :
                            ~IsWhitespace(Chars(e.comment)[i])
       IN  [approved |-> IF e.action = "approved"
                         THEN Append(prev.approved, decision) ELSE prev.approved,
            rejected |-> IF e.action = "rejected"
                         THEN Append(prev.rejected, decision) ELSE prev.rejected,
            rules |-> IF e.action = "revision" /\ nonBlank
                      THEN Append(prev.rules,
                                  [from |-> e.itemTitle, rule |-> e.comment,
                                   timestamp |-> e.timestamp])
                      ELSE prev.rules]

\* C2: in every state the stored pattern summary of a project is the
\* projection of its current ledger: approved and rejected entries in order
\* as {title, stage, comment, timestamp}, and the revision entries with a
\* comment that is not blank as {from, rule, timestamp}.
C2_PatternsMatchLedger ==
  \A pid \in AllProjectIds : patterns[pid] = ExpectedPatterns(feedback[pid])

\* C2 witness: a ledger with an approval, a revision with a blank comment
\* and a revision with a rule, summarised.
C2_Witness ==
  \E pid \in AllProjectIds :
    /\ Len(patterns[pid].approved) = 1
    /\ Len(patterns[pid].rules) = 1
    /\ \E i \in 1..Len(feedback[pid]) :
         feedback[pid][i].action = "revision" /\ feedback[pid][i].comment = "  "

\* The direct contradictions in the result of findContradictions.
DirectPart(fb) == LET D(c) == c.type = "direct" IN SelectSeq(FindContradictions(fb), D)
ThematicPart(fb) == LET T(c) == c.type = "thematic" IN SelectSeq(FindContradictions(fb), T)

\* The pairs of positions of fb that hold an approval and a rejection, in
\* either order, of the same item.
FlipPairs(fb) ==
  {p \in (1..Len(fb)) \X (1..Len(fb)) :
     /\ p[1] < p[2]
     /\ fb[p[1]].itemId = fb[p[2]].itemId
     /\ {fb[p[1]].action, fb[p[2]].action} = {"approved", "rejected"}}

\* C3: findContradictions reports exactly one direct contradiction for each
\* pair of entries of the same item, adjacent or not, that are an approval
\* and a rejection, with the earlier entry as entry1, and none for any
\* other pair.
C3_DirectExact ==
  \A pid \in AllProjectIds :
    LET fb == feedback[pid]
        d == DirectPart(fb)
    IN  /\ \A p \in FlipPairs(fb) :
             Cardinality({k \in 1..Len(d) :
                            d[k].entry1 = fb[p[1]] /\ d[k].entry2 = fb[p[2]]}) = 1
        /\ \A k \in 1..Len(d) :
             \E p \in FlipPairs(fb) :
               d[k].entry1 = fb[p[1]] /\ d[k].entry2 = fb[p[2]]

\* C3 witness: approved, commented, rejected on one item, one contradiction.
C3_Witness ==
  \E pid \in AllProjectIds :
    LET fb == feedback[pid]
    IN  /\ Len(fb) = 3
        /\ fb[1].itemId = fb[2].itemId /\ fb[2].itemId = fb[3].itemId
        /\ fb[1].action = "approved" /\ fb[2].action = "commented"
        /\ fb[3].action = "rejected"
        /\ Len(DirectPart(fb)) = 1

\* The positions of fb tagged with a theme: a comment that is not empty
\* and holds one of the theme's keywords, whatever the case.
TaggedAt(fb, theme) ==
  {i \in 1..Len(fb) : Truthy(fb[i].comment) /\ MatchesTheme(fb[i], theme)}

LastTagged(fb, theme) ==
  fb[CHOOSE i \in TaggedAt(fb, theme) : \A j \in TaggedAt(fb, theme) : j <= i]

\* The axes with a tagged entry on both sides, in the order of pairs.
ActiveAxes(fb) ==
  LET Both(axis) == TaggedAt(fb, axis[1]) # {} /\ TaggedAt(fb, axis[2]) # {}
  IN  SelectSeq(pairs, Both)

\* C4: each thematic contradiction reported refers to the last entry of the
\* ledger tagged with the first theme of its axis as entry1 and the last
\* one tagged with the second theme as entry2.
C4_MostRecentWins ==
  \A pid \in AllProjectIds :
    LET fb == feedback[pid]
        t == ThematicPart(fb)
        axes == ActiveAxes(fb)
    IN  \A k \in 1..Len(t) :
          /\ k <= Len(axes)
          /\ t[k].entry1 = LastTagged(fb, axes[k][1])
          /\ t[k].entry2 = LastTagged(fb, axes[k][2])

\* C4 witness: shorter-tagged entries first and third, a longer-tagged one
\* between them, and the contradiction naming the third.
C4_Witness ==
  \E pid \in AllProjectIds :
    LET fb == feedback[pid]
    IN  /\ Len(fb) = 3
        /\ fb[1].comment = "Too long" /\ fb[2].comment = "expand it"
        /\ fb[3].comment = "Too long"
        /\ Len(ThematicPart(fb)) = 1
        /\ ThematicPart(fb)[1].entry1 = fb[3]

\* C5: findContradictions reports one thematic contradiction for each axis
\* with tagged entries on both sides and none for the other axes, so never
\* more than three.
C5_OnePerTwoSidedAxis ==
  \A pid \in AllProjectIds :
    LET fb == feedback[pid]
    IN  /\ Len(ThematicPart(fb)) = Len(ActiveAxes(fb))
        /\ Len(ThematicPart(fb)) <= Len(pairs)
        /\ \A a \in 1..Len(pairs) :
             Len(ThematicOfAxis(fb, pairs[a])) =
               IF TaggedAt(fb, pairs[a][1]) # {} /\ TaggedAt(fb, pairs[a][2]) # {}
               THEN 1 ELSE 0

\* C5 witness: comments on the shorter side alone give nothing, and the
\* first comment on the longer side gives one contradiction.
C5_Witness ==
  \E pid \in AllProjectIds :
    LET fb == feedback[pid]
    IN  /\ Len(fb) = 3
        /\ fb[1].comment = "Too long" /\ fb[2].comment = "Too long"
        /\ fb[3].comment = "expand it"
        /\ Len(ThematicPart(SubSeq(fb, 1, 2))) = 0
        /\ Len(ThematicPart(fb)) = 1

\* The item with the given id in a document.
ItemOf(its, itemId) == its[CHOOSE i \in 1..Len(its) : its[i].id = itemId]

\* The document of a stage name after the step.
GetItemsNext(pid, stage) ==
  IF stage = "feedback" THEN feedback'[pid] ELSE items'[pid][stage]

\* C6: every status change answered 200 (valid status, item found) makes the
\* ledger one entry longer, and the new entry has the action of the new
\* status (commented for pending), the id, title and stage of the target
\* and the caller's comment, or none if the caller sent none; the current
\* status of the item plays no part.
C6_StatusAppendsOne ==
  [][\A pid \in AllProjectIds, stage \in RequestStages :
       \A itemId \in IdsOf(GetItems(pid, stage)),
          status \in Statuses, comment \in CommentInputs :
         res' = [endpoint |-> "status", status |-> 200]
           /\ PostStatus(pid, stage, itemId, status, comment) =>
           LET item == ItemOf(GetItems(pid, stage), itemId)
               new == feedback'[pid]
               e == new[Len(new)]
           IN  /\ Len(new) = Len(feedback[pid]) + 1
               /\ e.action = (IF status \in {"approved", "rejected", "revision"}
                              THEN status ELSE "commented")
               /\ e.itemId = itemId
               /\ e.itemTitle = Get(item, "title")
               /\ e.stage = stage
               /\ e.comment # Undefined => comment # Undefined /\ e.comment = comment
               /\ comment \notin {Undefined, ""} => e.comment = comment
    ]_vars

\* C6 witness: an approved concept approved once more, two entries.
C6_Witness ==
  \E pid \in AllProjectIds :
    LET fb == feedback[pid]
    IN  /\ Len(fb) = 2
        /\ fb[1].itemId = fb[2].itemId
        /\ fb[1].action = "approved" /\ fb[2].action = "approved"
        /\ fb[1].stage = "concepts"
        /\ ItemOf(items[pid]["concepts"], fb[1].itemId).status = "approved"

\* C7: the comment endpoint, given a comment that is not blank and an item
\* that exists, makes the ledger one entry longer with action commented,
\* appends one user comment to the item and keeps its status; given a
\* missing, empty or blank comment it answers 400 and leaves items, ledger
\* and summary as they were.
C7_CommentOnly ==
  [][\A pid \in AllProjectIds, stage \in RequestStages :
       \A itemId \in IdsOf(GetItems(pid, stage)) \cup {MissingId},
          comment \in CommentInputs :
         res'.endpoint = "comment" /\ PostComment(pid, stage, itemId, comment) =>
           IF comment # Undefined
              /\ \E i \in 1..Len(Chars(comment)) : ~IsWhitespace(Chars(comment)[i])
           THEN itemId \in IdsOf(GetItems(pid, stage)) =>
                  LET item == ItemOf(GetItems(pid, stage), itemId)
                      after == ItemOf(GetItemsNext(pid, stage), itemId)
                      new == feedback'[pid]
                  IN  /\ Len(new) = Len(feedback[pid]) + 1
                      /\ new[Len(new)].action = "commented"
                      /\ new[Len(new)].comment = comment
                      /\ new[Len(new)].itemId = itemId
                      /\ after.comments =
                           Append(CommentsOf(item), [text |-> comment, author |-> "user"])
                      /\ Get(after, "status") = Get(item, "status")
           ELSE /\ res' = [endpoint |-> "comment", status |-> 400]
                /\ UNCHANGED <<items, feedback, patterns>>
    ]_vars

\* C7 witness: an approved concept commented on, still approved.
C7_Witness ==
  \E pid \in AllProjectIds :
    LET fb == feedback[pid]
    IN  /\ res = [endpoint |-> "comment", status |-> 200]
        /\ Len(fb) = 2
        /\ fb[1].action = "approved" /\ fb[2].action = "commented"
        /\ fb[1].itemId = fb[2].itemId /\ fb[1].stage = "concepts"
        /\ LET c == ItemOf(items[pid]["concepts"], fb[1].itemId)
           IN  c.status = "approved" /\ Len(c.comments) = 1

\* A scripts batch request that finds nothing to do: no provider call, no
\* write, generated = 0 and the message.
ZeroRun ==
  /\ res' = [endpoint |-> "scripts/batch", status |-> 200, generated |-> 0,
             message |-> "All approved concepts already have scripts."]
  /\ UNCHANGED <<items, procs>>

\* C8 as stated: once a scripts batch run has responded with success, and
\* as long as no concept changes status after that response, the next
\* scripts batch request is a zero run.
C8_IdempotentAfterRun ==
  [][\A pid \in AllProjectIds :
       lastRun[pid] \in {"changed", "clean"} /\ PostScriptsBatch(pid) => ZeroRun]_vars

\* C8 amended: the same, when no concept has changed status since the run
\* selected its concepts, during the run included.
C8_IdempotentAfterQuietRun ==
  [][\A pid \in AllProjectIds :
       lastRun[pid] = "clean" /\ PostScriptsBatch(pid) => ZeroRun]_vars

\* C8 witness: a zero run answered for a project with an approved concept
\* and its script.
C8_Witness ==
  \E pid \in AllProjectIds :
    /\ lastRun[pid] = "clean"
    /\ res = [endpoint |-> "scripts/batch", status |-> 200, generated |-> 0,
              message |-> "All approved concepts already have scripts."]
    /\ \E i \in 1..Len(items[pid]["concepts"]) :
         /\ items[pid]["concepts"][i].status = "approved"
         /\ \E j \in 1..Len(items[pid]["scripts"]) :
              items[pid]["scripts"][j].parentId = items[pid]["concepts"][i].id

\* The concepts a batch run is to script: approved, and parent of no script.
Eligible(pid) ==
  {c \in Range(items[pid]["concepts"]) :
     /\ c.status = "approved"
     /\ \A j \in 1..Len(items[pid]["scripts"]) : items[pid]["scripts"][j].parentId # c.id}

\* C9: a scripts batch run selects exactly the concepts that are approved
\* and have no script when it is requested, each once, and when it succeeds
\* it appends one new pending script per selected concept, with that
\* concept's id as parentId, and nothing else.
C9_BatchScriptsEligible ==
  [][/\ \A pid \in AllProjectIds :
          PostScriptsBatch(pid) /\ procs' # procs =>
            LET run == procs'[FreeSlot]
            IN  /\ Range(run.toGenerate) = Eligible(pid)
                /\ Len(run.toGenerate) = Cardinality(Eligible(pid))
     /\ \A k \in Slots :
          ScriptsBatchReturn(k) /\ procs'[k] = Idle =>
            LET run == procs[k]
                old == items[run.pid]["scripts"]
                new == items'[run.pid]["scripts"]
            IN  /\ IsPrefix(old, new)
                /\ Len(new) = Len(old) + Len(run.toGenerate)
                /\ \A i \in 1..Len(run.toGenerate) :
                     /\ new[Len(old) + i].parentId = run.toGenerate[i].id
                     /\ new[Len(old) + i].status = "pending"
                /\ Cardinality(IdsOf(new)) = Len(new)
    ]_vars

\* C9 witness: a batch run that scripted the approved concept and not the
\* pending one.
C9_Witness ==
  \E pid \in AllProjectIds :
    LET concepts == items[pid]["concepts"]
        scripts == items[pid]["scripts"]
    IN  /\ res = [endpoint |-> "scripts/batch", status |-> 200, generated |-> 1]
        /\ Len(concepts) = 2 /\ Len(scripts) = 1
        /\ \E i, j \in 1..2 :
             /\ concepts[i].status = "approved" /\ concepts[j].status = "pending"
             /\ scripts[1].parentId = concepts[i].id

\* C10: every generation request in flight works on an upstream item that
\* was approved when the request read it: scripts come from approved
\* concepts, storyboards from approved scripts, by the single-item
\* endpoints and by the batch.
C10_StageGate ==
  \A k \in Slots :
    /\ procs[k].kind = "script" => procs[k].concept.status = "approved"
    /\ procs[k].kind = "storyboard" => procs[k].script.status = "approved"
    /\ procs[k].kind = "scriptsBatch" =>
         \A i \in 1..Len(procs[k].toGenerate) :
           procs[k].toGenerate[i].status = "approved"

\* C11: a generator failure inside a scripts batch run stays with its
\* concept: the run goes on to the concepts still to come, and when the
\* failed concept was the last one the scripts generated so far are in the
\* scripts document.
C11_BatchFailureIsolated ==
  [][\A k \in Slots :
       ScriptsBatchThrow(k) =>
         LET run == procs[k]
         IN  IF Len(run.generated) + 1 < Len(run.toGenerate)
             THEN procs'[k].kind = "scriptsBatch"
             ELSE \A i \in 1..Len(run.generated) :
                    run.generated[i] \in Range(items'[run.pid]["scripts"])
    ]_vars

\* The storyboards of a listing that were derived from the script.
BoardsOf(listing, scriptId) ==
  {i \in 1..Len(listing) : listing[i].parentId = scriptId}

\* C12: a storyboard batch request with work to do answers with the count
\* of scripts before the run makes its first provider call and writes
\* nothing itself; the run then writes each script's storyboard right after
\* that script's last provider call and before the next script's first
\* one, so the storyboards document, and any listing read during the run,
\* holds a storyboard for every script the run has completed.
C12_BatchDecoupled ==
  /\ [](\A k \in Slots :
          procs[k].kind = "storyboardBatch" =>
            LET run == procs[k]
                log == run.log
            IN  /\ log[1].ev = "respond"
                /\ \A j \in 2..Len(log) :
                     /\ log[j].ev # "respond"
                     /\ log[j].ev = "prompt" /\ j > 2 =>
                          /\ log[j - 1].ev \in {"write", "fail"}
                          /\ log[j - 1].script # log[j].script
                     /\ log[j].ev = "image" /\ j < Len(log) =>
                          /\ log[j + 1].ev \in {"image", "write"}
                          /\ log[j + 1].script = log[j].script
                     /\ log[j].ev = "write" =>
                          BoardsOf(items[run.pid]["storyboards"], log[j].script) # {})
  /\ [][\A pid \in AllProjectIds :
          /\ PostStoryboardBatch(pid) /\ procs' # procs =>
               /\ res'.count = Len(BoardsToGenerate(items[pid]["scripts"],
                                                    items[pid]["storyboards"]))
               /\ res'.count > 0
               /\ UNCHANGED items
          /\ GetListing(pid, "storyboards") =>
               \A k \in Slots :
                 procs[k].kind = "storyboardBatch" /\ procs[k].pid = pid =>
                   \A j \in 1..Len(procs[k].log) :
                     procs[k].log[j].ev = "write" =>
                       BoardsOf(res'.items, procs[k].log[j].script) # {}
       ]_vars

\* C12 witness: a listing read while a run is on its second script shows
\* the storyboard of the first.
C12_Witness ==
  \E k \in Slots :
    /\ procs[k].kind = "storyboardBatch"
    /\ procs[k].done = 1 /\ Len(procs[k].toGenerate) = 2
    /\ procs[k].log[Len(procs[k].log) - 1].ev = "write"
    /\ res.endpoint = "items"
    /\ BoardsOf(res.items, procs[k].toGenerate[1].id) # {}

\* The positions of a ledger whose entry has the action.
WithAction(fb, action) == {i \in 1..Len(fb) : fb[i].action = action}

\* C13: what getFullContext returns is determined by the documents as they
\* are at the call: its feedback is the ledger, and its summary counts the
\* ledger (entries, entries per action, revision entries with a comment
\* that is not blank) and the contradictions of that ledger (one per
\* approved/rejected pair of an item, one per axis tagged on both sides).
C13_ContextDerived ==
  \A pid \in AllProjectIds :
    LET ctx == GetFullContext(pid)
        fb == feedback[pid]
    IN  /\ ctx.feedback = fb
        /\ ctx.summary.totalFeedback = Len(fb)
        /\ ctx.summary.approvedCount = Cardinality(WithAction(fb, "approved"))
        /\ ctx.summary.rejectedCount = Cardinality(WithAction(fb, "rejected"))
        /\ ctx.summary.revisionCount = Cardinality(WithAction(fb, "revision"))
        /\ ctx.summary.activeContradictions =
             Cardinality(FlipPairs(fb)) + Len(ActiveAxes(fb))
        /\ ctx.summary.activeContradictions = Len(ctx.contradictions)
        /\ ctx.summary.learnedRules =
             Cardinality({i \in WithAction(fb, "revision") :
                            /\ fb[i].comment # Undefined
                            /\ \E c \in 1..Len(Chars(fb[i].comment)) :
                                 ~IsWhitespace(Chars(fb[i].comment)[c])})

\* C13 witness: a context whose summary counts an approval, a rejection of
\* the same item, a revision with a rule and one with a blank comment.
C13_Witness ==
  \E pid \in AllProjectIds :
    /\ Len(feedback[pid]) = 3
    /\ feedback[pid][3].action = "revision" /\ feedback[pid][3].comment = "  "
    /\ GetFullContext(pid).summary.revisionCount = 2
    /\ GetFullContext(pid).summary.learnedRules = 1
    /\ GetFullContext(pid).summary.approvedCount = 1

\* A request refused with the given HTTP status: no document is written
\* and no provider call is made (no handler is left awaiting one).
Refused(status) ==
  /\ res'.status = status
  /\ UNCHANGED <<projects, items, feedback, patterns, uuidCtr, procs>>

\* C14: a request that fails validation is answered 400 and leaves the
\* project index, the stage documents, the ledger and the patterns as they
\* were, with no provider call: a status change to a value outside pending,
\* approved, rejected, revision; a comment that is missing, empty or blank;
\* a project with a missing or blank name; a generation request without a
\* required id.
C14_ValidationBeforeMutation ==
  [][/\ \A pid \in AllProjectIds :
        \A itemId \in IdsOf(items[pid]["concepts"]) \cup {MissingId} :
          /\ res'.endpoint = "status"
               /\ PostStatus(pid, "concepts", itemId, "done", Undefined) => Refused(400)
          /\ \A comment \in {Undefined, "", "  "} :
               res'.endpoint = "comment"
                 /\ PostComment(pid, "concepts", itemId, comment) => Refused(400)
     /\ \A name \in {Undefined, "  "} :
          res'.endpoint = "projects" /\ PostProjects(name) => Refused(400)
     /\ res'.endpoint = "strategies" /\ PostStrategies(Undefined) => Refused(400)
     /\ res'.endpoint = "concepts" /\ PostConcepts(Undefined, Undefined) => Refused(400)
     /\ \A pid \in AllProjectIds :
          /\ res'.endpoint = "scripts" /\ PostScripts(pid, Undefined) => Refused(400)
          /\ res'.endpoint = "storyboard" /\ PostStoryboard(pid, Undefined) => Refused(400)
          /\ res'.endpoint = "iterate"
               /\ PostIterate(pid, "concepts", Undefined) => Refused(400)
          /\ res'.endpoint = "iterate"
               /\ PostIterate(pid, Undefined, MissingId) => Refused(400)
     /\ \A id \in RefusedIds :
          /\ res'.endpoint = "scripts" /\ PostScripts(Undefined, id) => Refused(400)
          /\ res'.endpoint = "storyboard" /\ PostStoryboard(Undefined, id) => Refused(400)
          /\ res'.endpoint = "iterate"
               /\ PostIterate(Undefined, "concepts", id) => Refused(400)
     /\ res'.endpoint = "scripts/batch" /\ PostScriptsBatch(Undefined) => Refused(400)
     /\ res'.endpoint = "storyboard/batch" /\ PostStoryboardBatch(Undefined) => Refused(400)
    ]_vars

\* C14 witness: a status outside the enumeration refused for a project
\* with a reviewed concept.
C14_Witness ==
  /\ res = [endpoint |-> "status", status |-> 400]
  /\ \E pid \in AllProjectIds :
       /\ Len(feedback[pid]) > 0
       /\ \E i \in 1..Len(items[pid]["concepts"]) :
            items[pid]["concepts"][i].status = "approved"

\* C15: a request that names an item id its stage document does not hold is
\* answered 404 and has no effect: no ledger entry, no change to an item,
\* the patterns or the project index, no provider call.  This holds for a
\* status change, a comment, an iteration, a single script (the concept
\* id) and a single storyboard (the script id).
C15_NotFoundNoEffect ==
  [][\A pid \in AllProjectIds :
       /\ \A status \in Statuses :
            res'.endpoint = "status"
              /\ PostStatus(pid, "concepts", MissingId, status, Undefined) => Refused(404)
       /\ res'.endpoint = "comment"
            /\ PostComment(pid, "concepts", MissingId, "nice") => Refused(404)
       /\ res'.endpoint = "iterate"
            /\ PostIterate(pid, "concepts", MissingId) => Refused(404)
       /\ res'.endpoint = "scripts" /\ PostScripts(pid, MissingId) => Refused(404)
       /\ res'.endpoint = "storyboard" /\ PostStoryboard(pid, MissingId) => Refused(404)
    ]_vars

\* C15 witness: an iteration of an unknown item refused for a project with
\* a reviewed concept.
C15_Witness ==
  /\ res = [endpoint |-> "iterate", status |-> 404]
  /\ \E pid \in AllProjectIds :
       /\ Len(feedback[pid]) > 0
       /\ \E i \in 1..Len(items[pid]["concepts"]) :
            items[pid]["concepts"][i].status = "approved"

\* C16: a strategy or concept generation request whose projectId is not in
\* the project index is aborted without creating or modifying a document,
\* and in every reachable state every stage document that holds items
\* belongs to a project of the index.
C16_ProjectNotFoundNoEffect ==
  /\ [](\A pid \in AllProjectIds :
          (\E st \in Stages : Len(items[pid][st]) > 0) => pid \in KnownProjectIds)
  /\ [][\A pid \in AllProjectIds \ KnownProjectIds :
          /\ PostStrategies(pid) => Refused(404)
          /\ \A strategyId \in {MissingId, Undefined} :
               PostConcepts(pid, strategyId) => Refused(404)
       ]_vars

\* The provider texts in which neither the bracket match nor the brace
\* match is a JSON document.
Unparseable ==
  {t \in ProviderTexts :
     /\ JsonParse(Match(TextChars(t), "[", "]")) = ParseError
     /\ JsonParse(Match(TextChars(t), "{", "}")) = ParseError}

\* C17: when the provider's text yields no parseable JSON array or object,
\* generate returns the raw text under the raw field instead of throwing,
\* and the strategy and concept endpoints then add no items (every stage
\* document is unchanged) and return the raw result with status 200.
C17_ParsingFailsSoft ==
  /\ [](\A t \in Unparseable : Generate(t) = [kind |-> "raw", raw |-> t])
  /\ [][\A k \in Slots, t \in Unparseable :
          /\ res'.endpoint = "strategies" /\ StrategiesReturn(k, Generate(t))
               => /\ items' = items
                  /\ res' = [endpoint |-> "strategies", status |-> 200,
                             raw |-> [kind |-> "raw", raw |-> t]]
          /\ res'.endpoint = "concepts" /\ ConceptsReturn(k, Generate(t))
               => /\ items' = items
                  /\ res' = [endpoint |-> "concepts", status |-> 200,
                             raw |-> [kind |-> "raw", raw |-> t]]
       ]_vars

\* C17 witness: a concept request answered with the raw text of an
\* unparseable reply, for a project that already holds a concept.
C17_Witness ==
  /\ res = [endpoint |-> "concepts", status |-> 200,
            raw |-> [kind |-> "raw", raw |-> "[sic] no ideas"]]
  /\ \E pid \in KnownProjectIds : Len(items[pid]["concepts"]) > 0

\* The ids of the items a parent link may name: those of the stage
\* immediately upstream, in the same project.
Upstream(st) ==
  CASE st = "concepts" -> "strategies"
    [] st = "scripts" -> "concepts"
    [] st = "storyboards" -> "scripts"

\* C19: in every reachable state, every non-null parentId of a concept, a
\* script or a storyboard is the id of an existing item of the stage
\* immediately upstream in the same project.
C19_ParentLinks ==
  \A pid \in AllProjectIds : \A st \in {"concepts", "scripts", "storyboards"} :
    \A i \in 1..Len(items[pid][st]) :
      LET parentId == Get(items[pid][st][i], "parentId")
      IN  parentId \notin {Null, Undefined}
            => parentId \in IdsOf(items[pid][Upstream(st)])

\* C18: after a successful iterate on an existing item, whatever its prior
\* status, the item's status is pending, its id, title and parentId are
\* unchanged, the comments it had are all retained with exactly one system
\* comment appended, and the feedback ledger and the pattern summary are
\* unchanged.
C18_IterateFrame ==
  [][\A k \in Slots :
       res'.endpoint = "iterate" /\ res'.status = 200 /\ IterateReturn(k)
         => LET pid == procs[k].pid
                stage == procs[k].stage
                id == procs[k].item.id
                old == ItemOf(GetItems(pid, stage), id)
                new == ItemOf(GetItemsNext(pid, stage), id)
            IN  /\ new.status = "pending"
                /\ new.id = old.id
                /\ Get(new, "title") = Get(old, "title")
                /\ Get(new, "parentId") = Get(old, "parentId")
                /\ new.comments = Append(CommentsOf(old), SystemComment)
                /\ feedback' = feedback
                /\ patterns' = patterns
    ]_vars

\* C20: in every reachable state, every pipeline item of every stage has a
\* status among pending, approved, rejected and revision.
C20_StatusEnumeration ==
  \A pid \in AllProjectIds : \A st \in Stages :
    \A i \in 1..Len(items[pid][st]) :
      items[pid][st][i].status \in {"pending", "approved", "rejected", "revision"}

\* C20 witness: an approved concept that an iteration has reset to pending.
C20_Witness ==
  /\ res = [endpoint |-> "iterate", status |-> 200]
  /\ \E pid \in KnownProjectIds : \E i \in 1..Len(items[pid]["concepts"]) :
       /\ items[pid]["concepts"][i].status = "pending"
       /\ SystemComment \in Range(items[pid]["concepts"][i].comments)
       /\ \E j \in 1..Len(feedback[pid]) :
            /\ feedback[pid][j].itemId = items[pid]["concepts"][i].id
            /\ feedback[pid][j].action = "approved"

\* A returned sequence of contradictions without the ids drawn for it.
StripIds(cs) ==
  [i \in 1..Len(cs) |->
     [type |-> cs[i].type, entry1 |-> cs[i].entry1, entry2 |-> cs[i].entry2,
      description |-> cs[i].description]]

PosOf(fb, e) == CHOOSE n \in 1..Len(fb) : fb[n] = e

\* C23: in the sequence findContradictions returns, every direct
\* contradiction precedes every thematic one; the direct contradictions of
\* one item are contiguous and in the order their entry pairs (i, j) are
\* discovered; the thematic ones follow the axis order shorter/longer,
\* lighter/darker, grounded/absurd.
C23_ResultOrder ==
  \A pid \in AllProjectIds :
    LET fb == feedback[pid]
        r == FindContradictions(fb)
        d == DirectPart(fb)
        t == ThematicPart(fb)
        axes == ActiveAxes(fb)
    IN  /\ \A i \in 1..Len(r) : \A j \in (i + 1)..Len(r) :
             ~(r[i].type = "thematic" /\ r[j].type = "direct")
        /\ \A i \in 1..Len(d) : \A j \in (i + 1)..Len(d) :
             d[i].entry1.itemId = d[j].entry1.itemId
               => /\ \A k \in i..j : d[k].entry1.itemId = d[i].entry1.itemId
                  /\ \/ PosOf(fb, d[i].entry1) < PosOf(fb, d[j].entry1)
                     \/ /\ PosOf(fb, d[i].entry1) = PosOf(fb, d[j].entry1)
                        /\ PosOf(fb, d[i].entry2) < PosOf(fb, d[j].entry2)
        /\ pairs = << <<"shorter", "longer">>, <<"lighter", "darker">>,
                      <<"grounded", "absurd">> >>
        /\ Len(t) = Len(axes)
        /\ \A k \in 1..Len(t) :
             /\ MatchesTheme(t[k].entry1, axes[k][1])
             /\ MatchesTheme(t[k].entry2, axes[k][2])

\* C23 witness: five entries, two direct contradictions of the first item
\* around one of the second, and a thematic contradiction on each of two
\* axes.
C23_Witness ==
  \E pid \in AllProjectIds :
    LET fb == feedback[pid]
    IN  /\ Len(fb) = 5
        /\ fb[1].itemId = "item-a" /\ fb[2].itemId = "item-b"
        /\ fb[2].action = "approved" /\ fb[3].itemId = "item-a"
        /\ fb[4].itemId = "item-b" /\ fb[4].action = "rejected"
        /\ fb[5].itemId = "item-a"
        /\ Len(DirectPart(fb)) = 3
        /\ Len(ThematicPart(fb)) = 2

\* C24: within the result of one findContradictions call, no two
\* contradictions, direct or thematic, reference the same pair of ledger
\* entries.
C24_PairsOnce ==
  \A pid \in AllProjectIds :
    LET r == FindContradictions(feedback[pid])
    IN  \A i \in 1..Len(r) : \A j \in (i + 1)..Len(r) :
          {r[i].entry1, r[i].entry2} # {r[j].entry1, r[j].entry2}

\* C25: every contradiction findContradictions returns, direct or
\* thematic, is between two distinct ledger entries, also when one comment
\* holds keywords of both themes of an axis.
C25_DistinctEntries ==
  \A pid \in AllProjectIds :
    LET r == FindContradictions(feedback[pid])
    IN  \A i \in 1..Len(r) : r[i].entry1 # r[i].entry2

\* The number of entries of ledger fb on an item with an action.
CountOf(fb, itemId, action) ==
  Cardinality({i \in 1..Len(fb) : fb[i].itemId = itemId /\ fb[i].action = action})

\* C28: direct contradictions are never resolved by later feedback: each
\* one reported for a ledger, identified by its entry pair, is still
\* reported after an entry is appended, so their number never decreases,
\* and for each item it is the number of its approved entries times the
\* number of its rejected entries.
C28_DirectNeverResolved ==
  /\ [](\A pid \in AllProjectIds :
          LET fb == feedback[pid]
              d == DirectPart(fb)
          IN  \A itemId \in {fb[i].itemId : i \in 1..Len(fb)} :
                Cardinality({k \in 1..Len(d) : d[k].entry1.itemId = itemId})
                  = CountOf(fb, itemId, "approved") * CountOf(fb, itemId, "rejected"))
  /\ [][\A pid \in AllProjectIds :
          feedback'[pid] # feedback[pid]
            => LET d == DirectPart(feedback[pid])
                   dn == DirectPart(feedback'[pid])
               IN  /\ Len(feedback'[pid]) = Len(feedback[pid]) + 1
                   /\ Len(dn) >= Len(d)
                   /\ \A k \in 1..Len(d) :
                        \E n \in 1..Len(dn) :
                          dn[n].entry1 = d[k].entry1 /\ dn[n].entry2 = d[k].entry2
       ]_vars

\* C28 witness: five decisions on one item, three approvals and two
\* rejections, and six direct contradictions.
C28_Witness ==
  \E pid \in AllProjectIds :
    LET fb == feedback[pid]
    IN  /\ Len(fb) = 5
        /\ \A i \in 1..5 : fb[i].itemId = "item-b"
        /\ fb[1].action = "approved" /\ fb[5].action = "approved"
        /\ CountOf(fb, "item-b", "rejected") = 2
        /\ Len(DirectPart(fb)) = 6

\* The ids of a document in document order.
IdSeq(its) == [i \in 1..Len(its) |-> its[i].id]

\* C21: pipeline items are never deleted: in every step of generation,
\* status change, comment, iterate and reframe, each stage document keeps
\* the ids it had, in the same relative order, at the same positions, and
\* new ids come after them.
C21_NeverDeleted ==
  [][\A pid \in AllProjectIds : \A st \in Stages :
       IsPrefix(IdSeq(items[pid][st]), IdSeq(items'[pid][st]))
    ]_vars

\* C21 witness: two concepts, the first iterated after the second was
\* added, and the storyboard with its first frame regenerated.
C21_Witness ==
  \E pid \in KnownProjectIds :
    /\ Len(items[pid]["concepts"]) = 2
    /\ SystemComment \in Range(items[pid]["concepts"][1].comments)
    /\ items[pid]["concepts"][2].status = "approved"
    /\ Len(items[pid]["storyboards"]) = 1
    /\ items[pid]["storyboards"][1].frames[1].imageUrl = "url-2"
    /\ items[pid]["storyboards"][1].comments # <<>>

\* C26: in every reachable state, also when a status change or a comment
\* for an item is handled while an iterate on it awaits the generator,
\* every ledger entry that carries a comment for an item has a matching
\* user comment among the item's comments, and the item's status changes
\* only in the step that completes a status change (to the validated
\* value) or an iterate (to pending): no write discards the update of
\* another request.
C26_NoLostUpdate ==
  /\ [](\A pid \in AllProjectIds : \A n \in 1..Len(feedback[pid]) :
          LET e == feedback[pid][n]
          IN  e.stage \in Stages /\ Truthy(e.comment)
                /\ e.itemId \in IdsOf(items[pid][e.stage])
                => UserComment(e.comment)
                     \in Range(CommentsOf(ItemOf(items[pid][e.stage], e.itemId))))
  /\ [][\A pid \in AllProjectIds : \A st \in Stages :
          \A itemId \in IdsOf(items[pid][st]) :
            LET old == ItemOf(items[pid][st], itemId)
                new == ItemOf(items'[pid][st], itemId)
            IN  new.status # old.status
                  => \/ res'.endpoint = "status" /\ res'.status = 200
                     \/ /\ res'.endpoint = "iterate" /\ res'.status = 200
                        /\ new.status = "pending"
       ]_vars

\* C27: under any interleaving of batch requests, a second one issued
\* while an earlier one is still generating included, no upstream item
\* ends up with more than one batch-generated downstream item: no two
\* storyboards have the same parentId, nor do two scripts.
C27_OneDownstreamPerParent ==
  \A pid \in AllProjectIds : \A st \in {"scripts", "storyboards"} :
    \A i \in 1..Len(items[pid][st]) : \A j \in (i + 1)..Len(items[pid][st]) :
      items[pid][st][i].parentId # items[pid][st][j].parentId

\* C29: in the storyboard batch background task a failure on one script
\* does not stop the task: the task ends only with the pass for its last
\* selected script, every selected script has had its provider call, and
\* at the end each selected script either has exactly one storyboard with
\* parentId equal to its id, or failed and has none; and, every provider
\* call returning or throwing in the end, the task terminates.
C29_BatchTaskCompletes ==
  /\ [][\A k \in Slots :
          procs[k].kind = "storyboardBatch" /\ procs'[k] = Idle
            => LET run == procs[k]
                   before == items[run.pid]["storyboards"]
                   after == items'[run.pid]["storyboards"]
               IN  /\ run.done + 1 = Len(run.toGenerate)
                   /\ \A i \in 1..Len(run.toGenerate) :
                        LET script == run.toGenerate[i]
                            boards == {n \in 1..Len(after) : after[n].parentId = script.id}
                            failed == IF i <= run.done
                                      THEN Event("fail", script) \in Range(run.log)
                                      ELSE after = before
                        IN  /\ Event("prompt", script) \in Range(run.log)
                            /\ \/ ~failed /\ Cardinality(boards) = 1
                               \/ failed /\ boards = {}
       ]_vars
  /\ \A k \in Slots : (procs[k].kind = "storyboardBatch") ~> (procs[k] = Idle)

\* C29 witness: a run over two scripts that is at its second script after
\* the provider threw for the first.
C29_Witness ==
  \E k \in Slots :
    /\ procs[k].kind = "storyboardBatch"
    /\ Len(procs[k].toGenerate) = 2
    /\ procs[k].done = 1
    /\ procs[k].phase = "frames"
    /\ Event("fail", procs[k].toGenerate[1]) \in Range(procs[k].log)

\* The frame pushed for an image call that returned (ok) or threw (~ok),
\* as the n-th frame.
FrameStored(f, n, ok) ==
  /\ f.id = FrameId(n)
  /\ f.status = "pending"
  /\ IF ok THEN f.imageUrl # Null /\ "error" \notin DOMAIN f
     ELSE f.imageUrl = Null /\ "error" \in DOMAIN f

\* The frames a request holds after the step: those of the storyboard it
\* saved, or those it has generated so far.
FramesAfter(k) ==
  LET boards == items'[procs[k].pid]["storyboards"]
  IN  IF procs'[k].kind = procs[k].kind /\ procs'[k].phase = "frames"
      THEN procs'[k].generatedFrames
      ELSE boards[Len(boards)].frames

\* C30: in storyboard generation, single and batch, image failures are
\* isolated per frame: each image call adds one frame after those already
\* generated, with imageUrl null and an error field when the call threw
\* and with its image otherwise; the storyboard is saved with exactly one
\* frame per frame prompt, in prompt order; and the single endpoint saves
\* no storyboard when the list of frame prompts is empty.
C30_FrameFailuresIsolated ==
  [][\A k \in Slots :
       /\ \A ok \in BOOLEAN :
            StoryboardFrame(k, ok) \/ BatchFrame(k, ok)
              => LET had == procs[k].generatedFrames
                     frames == FramesAfter(k)
                 IN  /\ Len(frames) = Len(had) + 1
                     /\ \A i \in 1..Len(had) : frames[i] = had[i]
                     /\ FrameStored(frames[Len(frames)], Len(frames), ok)
                     /\ items' # items
                          => /\ Len(frames) = procs[k].frames
                             /\ \A i \in 1..Len(frames) : frames[i].id = FrameId(i)
       /\ StoryboardPrompt(k, 0)
            => /\ items' = items
               /\ res' = [endpoint |-> "storyboard", status |-> 500]
    ]_vars

\* C30 witness: a storyboard saved by the single endpoint with two frames,
\* the first failed and the second generated.
C30_Witness ==
  /\ res.endpoint = "storyboard" /\ res.status = 200
  /\ \E pid \in KnownProjectIds :
       /\ Len(items[pid]["storyboards"]) = 1
       /\ LET frames == items[pid]["storyboards"][1].frames
          IN  /\ Len(frames) = 2
              /\ frames[1].imageUrl = Null /\ "error" \in DOMAIN frames[1]
              /\ frames[2].imageUrl = "url"

====
